---- MODULE Spec2Model ----
(***************************************************************************)
(* Model of the skill validation engine of claude-skills-cli:              *)
(* SkillValidator (core/validator.ts) and the validators it calls          *)
(* (frontmatter, description, content, alignment, references and           *)
(* file-structure validators).                                             *)
(*                                                                         *)
(* File contents are TLA+ strings, handled character by character with     *)
(* Len, SubSeq and \o, so every string test of the code (startsWith,       *)
(* includes, split, the regular expressions) is computed on the text of    *)
(* the file and not on a summary of it.                                    *)
(***************************************************************************)
EXTENDS Integers, Sequences, FiniteSets, TLC

(***************************************************************************)
(* Bounds of the model.                                                    *)
(***************************************************************************)
\* validate_all() calls made on the SkillValidator instance
MaxCalls == 2
\* reference links written in the files of a reference graph (SpecNesting)
MaxLinks == 3

(***************************************************************************)
(* JavaScript string primitives.                                           *)
(***************************************************************************)
NULL == "<null>"

\* The backquote cannot be written in a TLA+ string: the texts of the model write
\* the character ^ for it, which like it is neither a word character nor white space
\* nor named by any pattern of the code.
BACKQUOTE == "^"
FENCE == BACKQUOTE \o BACKQUOTE \o BACKQUOTE

Falsy(x) == x = NULL \/ x = ""

Max2(a, b) == IF a >= b THEN a ELSE b

CharAt(s, i) == IF 1 <= i /\ i <= Len(s) THEN SubSeq(s, i, i) ELSE ""

Slice(s, i) == SubSeq(s, i, Len(s))

MatchAt(s, i, p) ==
    /\ i >= 1
    /\ i + Len(p) - 1 <= Len(s)
    /\ SubSeq(s, i, i + Len(p) - 1) = p

startsWith(s, p) == MatchAt(s, 1, p)

endsWith(s, p) == Len(p) <= Len(s) /\ MatchAt(s, Len(s) - Len(p) + 1, p)

\* s[i..] starts with p, for a position i with Len(p) characters from it on in s;
\* k is Len(p) - 1
MatchIn(s, i, p, k) == SubSeq(s, i, i + k) = p

\* smallest i in lo..hi with s[i..] starting with p, 0 when there is none; lo >= 1,
\* hi + k <= Len(s) and k is Len(p) - 1
IndexIn(s, p, k, lo, hi) ==
    IF \E i \in lo..hi : MatchIn(s, i, p, k)
    THEN CHOOSE i \in lo..hi :
            MatchIn(s, i, p, k) /\ \A j \in lo..(i - 1) : ~MatchIn(s, j, p, k)
    ELSE 0

\* String.prototype.indexOf(p, from) with 1-based positions, 0 for "not found"
IndexOf(s, p, from) == IndexIn(s, p, Len(p) - 1, Max2(from, 1), Len(s) - Len(p) + 1)

\* String.prototype.includes(p)
IncludesIn(s, p, k) == \E i \in 1..(Len(s) - k + 1) : MatchIn(s, i, p, k - 1)

includes(s, p) == IncludesIn(s, p, Len(p))

\* String.prototype.split(sep) for a non-empty separator
\* (the separators of the code, "\n", "/" and "---\n", cannot overlap an occurrence
\* of themselves, so the text is cut at the occurrence nearest after its middle and
\* the halves are split in turn)
RECURSIVE split(_, _)
SplitAt(s, sep, i) ==
    split(SubSeq(s, 1, i - 1), sep) \o split(Slice(s, i + Len(sep)), sep)
SplitFrom(s, sep, i) ==
    IF i > 0 THEN SplitAt(s, sep, i)
    ELSE IF IndexOf(s, sep, 1) = 0 THEN <<s>>
    ELSE SplitAt(s, sep, IndexOf(s, sep, 1))
split(s, sep) == SplitFrom(s, sep, IndexOf(s, sep, Len(s) \div 2))

\* Array.prototype.join(sep)
RECURSIVE join(_, _)
join(parts, sep) ==
    IF Len(parts) = 0 THEN ""
    ELSE IF Len(parts) = 1 THEN parts[1]
    ELSE parts[1] \o sep \o join(Tail(parts), sep)

\* \s of the regular expressions and the characters trim() removes
SPACES == {" ", "\t", "\n", "\r"}
IsSpace(c) == c \in SPACES

\* line terminators: what "." does not match and where ^ and $ anchor under /m
LINE_TERMINATORS == {"\n", "\r"}
IsLineTerminator(c) == c \in LINE_TERMINATORS

LOWER_LETTERS == {"a","b","c","d","e","f","g","h","i","j","k","l","m",
                  "n","o","p","q","r","s","t","u","v","w","x","y","z"}
IsLower(c) == c \in LOWER_LETTERS

UPPER_LETTERS == {"A","B","C","D","E","F","G","H","I","J","K","L","M",
                  "N","O","P","Q","R","S","T","U","V","W","X","Y","Z"}
IsUpper(c) == c \in UPPER_LETTERS

DIGITS == {"0","1","2","3","4","5","6","7","8","9"}
IsDigit(c) == c \in DIGITS

\* \w of the regular expressions
WORD_CHARS == LOWER_LETTERS \cup UPPER_LETTERS \cup DIGITS \cup {"_"}
IsWordChar(c) == c \in WORD_CHARS

\* first position >= i holding a character that is not white space, Len(s)+1 at the end
SkipSpaces(s, i) ==
    IF i > Len(s) THEN i
    ELSE CHOOSE e \in i..(Len(s) + 1) :
            /\ e > Len(s) \/ ~IsSpace(CharAt(s, e))
            /\ \A j \in i..(e - 1) : IsSpace(CharAt(s, j))

\* first position >= i holding a line terminator, Len(s)+1 when the line is the last
LineEnd(s, i) ==
    LET n == IndexOf(s, "\n", i)
        r == IndexOf(s, "\r", i)
    IN  IF n = 0 /\ r = 0 THEN Len(s) + 1
        ELSE IF n = 0 THEN r
        ELSE IF r = 0 THEN n
        ELSE IF n < r THEN n ELSE r

\* last position <= i holding a character that is not white space, 0 when there is none
SkipSpacesBack(s, i) ==
    IF i < 1 THEN i
    ELSE CHOOSE e \in 0..i :
            /\ e < 1 \/ ~IsSpace(CharAt(s, e))
            /\ \A j \in (e + 1)..i : IsSpace(CharAt(s, j))

\* String.prototype.trim()
trim(s) ==
    LET a == SkipSpaces(s, 1)
        b == SkipSpacesBack(s, Len(s))
    IN  IF a > b THEN "" ELSE SubSeq(s, a, b)

\* Array.prototype.includes / membership of a value in a sequence
InSeq(x, seq) == \E i \in 1..Len(seq) : seq[i] = x

(***************************************************************************)
(* frontmatter-validator.ts                                                *)
(***************************************************************************)
has_yaml_frontmatter(content) ==
    startsWith(content, "---\n") \/ startsWith(content, "---\r\n")

\* /^[a-z_-]+:/ tested on one line
IsKeyChar(c) == IsLower(c) \/ c \in {"_", "-"}

KeyRunEnd(line, i) ==
    CHOOSE e \in i..(Len(line) + 1) :
        ~IsKeyChar(CharAt(line, e)) /\ \A j \in i..(e - 1) : IsKeyChar(CharAt(line, j))

IsFieldLine(line) ==
    LET e == KeyRunEnd(line, 1) IN e > 1 /\ CharAt(line, e) = ":"

\* /^\s+\S/ tested on one line
IsIndentedLine(line) ==
    LET e == SkipSpaces(line, 1) IN e > 1 /\ e <= Len(line)

\* positions where ^ matches under the m flag
AtLineStart(s, i) == i = 1 \/ IsLineTerminator(CharAt(s, i - 1))

\* first match of /^description:/m at or after position from, 0 when there is none
RECURSIVE DescLineMatch(_, _)
DescLineMatch(fm, from) ==
    LET i == IndexOf(fm, "description:", from)
    IN  IF i = 0 THEN 0
        ELSE IF AtLineStart(fm, i) THEN i
        ELSE DescLineMatch(fm, i + 1)

\* the loop of is_description_multiline over frontmatter.split('\n')
RECURSIVE ContinuationScan(_, _, _)
ContinuationScan(lines, i, found_desc) ==
    IF i > Len(lines) THEN FALSE
    ELSE IF startsWith(lines[i], "description:")
         THEN ContinuationScan(lines, i + 1, TRUE)
    ELSE IF ~found_desc THEN ContinuationScan(lines, i + 1, FALSE)
    ELSE IF /\ IsIndentedLine(lines[i])
            /\ ~startsWith(trim(lines[i]), "#")
            /\ ~IsFieldLine(lines[i])
         THEN TRUE
    ELSE IF IsFieldLine(lines[i]) THEN FALSE
    ELSE ContinuationScan(lines, i + 1, TRUE)

is_description_multiline(frontmatter) ==
    LET i == DescLineMatch(frontmatter, 1)
    IN  IF i = 0 THEN FALSE
        ELSE LET v == SkipSpaces(frontmatter, i + 12)    \* \s* crosses line ends
                 value_on_same_line ==
                     trim(SubSeq(frontmatter, v, LineEnd(frontmatter, v) - 1))
             IN  IF value_on_same_line = "" THEN TRUE
                 ELSE ContinuationScan(split(frontmatter, "\n"), 1, FALSE)

\* last position p in from..to holding a character "." matches, 0 when there is none:
\* where \s* stops after backtracking so that (.+) can take a character
RECURSIVE LastDotChar(_, _, _)
LastDotChar(s, from, to) ==
    IF to < from \/ to > Len(s) THEN (IF to < from THEN 0 ELSE LastDotChar(s, from, to - 1))
    ELSE IF ~IsLineTerminator(CharAt(s, to)) THEN to
    ELSE LastDotChar(s, from, to - 1)

\* frontmatter.match(/name:\s*(.+)/): the group of the first match, NULL without one
RECURSIVE NameGroup(_, _)
NameGroup(fm, from) ==
    LET i == IndexOf(fm, "name:", from)
    IN  IF i = 0 THEN NULL
        ELSE LET j == i + 5
                 k == SkipSpaces(fm, j)
                 g == LastDotChar(fm, j, k)
             IN  IF g = 0 THEN NameGroup(fm, i + 1)
                 ELSE SubSeq(fm, g, LineEnd(fm, g) - 1)

\* the lookahead (?=\n[a-z]+:|$) at position p (no m flag: $ is the end of the text)
LowerRunEnd(s, i) ==
    CHOOSE e \in i..(Len(s) + 1) :
        ~IsLower(CharAt(s, e)) /\ \A j \in i..(e - 1) : IsLower(CharAt(s, j))

DescLookahead(s, p) ==
    \/ p = Len(s) + 1
    \/ /\ CharAt(s, p) = "\n"
       /\ LET e == LowerRunEnd(s, p + 1) IN e > p + 1 /\ CharAt(s, e) = ":"

\* smallest p >= from at which the lookahead holds
RECURSIVE DescGroupEnd(_, _)
DescGroupEnd(s, from) ==
    LET n == IndexOf(s, "\n", from)
    IN  IF n = 0 THEN Len(s) + 1
        ELSE IF DescLookahead(s, n) THEN n
        ELSE DescGroupEnd(s, n + 1)

\* frontmatter.match(/description:\s*(.+?)(?=\n[a-z]+:|$)/s): the group, NULL without a match
RECURSIVE DescGroup(_, _)
DescGroup(fm, from) ==
    LET i == IndexOf(fm, "description:", from)
    IN  IF i = 0 THEN NULL
        ELSE LET j == i + 12
                 k == SkipSpaces(fm, j)
                 \* \s* is greedy; it gives a character back only at the end of the text
                 g == IF k <= Len(fm) THEN k ELSE IF k - 1 >= j THEN k - 1 ELSE 0
             IN  IF g = 0 THEN DescGroup(fm, i + 1)
                 ELSE SubSeq(fm, g, DescGroupEnd(fm, g + 1) - 1)

extract_frontmatter(content) ==
    LET parts == split(content, "---\n")
    IN  IF ~has_yaml_frontmatter(content) \/ Len(parts) < 3
        THEN [name |-> NULL, description |-> NULL, body |-> content,
              description_is_multiline |-> FALSE]
        ELSE LET frontmatter == parts[2]
                 name_match   == NameGroup(frontmatter, 1)
                 desc_match   == DescGroup(frontmatter, 1)
             IN  [name |-> IF name_match = NULL THEN NULL ELSE trim(name_match),
                  description |-> IF desc_match = NULL THEN NULL ELSE trim(desc_match),
                  body |-> join(SubSeq(parts, 3, Len(parts)), "---\n"),
                  description_is_multiline |-> is_description_multiline(frontmatter)]

validate_frontmatter_structure(content) ==
    LET parts == split(content, "---\n")
    IN  IF ~has_yaml_frontmatter(content)
        THEN [valid |-> FALSE, has_frontmatter |-> FALSE,
              parse_error |-> "Missing YAML frontmatter", missing_fields |-> <<>>]
        ELSE IF Len(parts) < 3
        THEN [valid |-> FALSE, has_frontmatter |-> TRUE,
              parse_error |-> "Malformed YAML frontmatter", missing_fields |-> <<>>]
        ELSE LET frontmatter == parts[2]
                 missing == (IF includes(frontmatter, "name:") THEN <<>> ELSE <<"name">>)
                         \o (IF includes(frontmatter, "description:") THEN <<>>
                             ELSE <<"description">>)
             IN  [valid |-> missing = <<>>, has_frontmatter |-> TRUE,
                  parse_error |-> NULL, missing_fields |-> missing]

\* validate_name_format: /^[a-z0-9-]+$/
IsKebab(name) ==
    /\ Len(name) > 0
    /\ \A i \in 1..Len(name) :
          LET c == CharAt(name, i) IN IsLower(c) \/ IsDigit(c) \/ c = "-"

validate_name_format(name, directory_name) ==
    LET format_valid      == IsKebab(name)
        matches_directory == name = directory_name
    IN  [name |-> name,
         format_valid |-> format_valid,
         directory_name |-> directory_name,
         matches_directory |-> matches_directory,
         errors |->
            (IF format_valid THEN <<>>
             ELSE <<[type |-> "name_format",
                     message |-> "Skill name must be lowercase kebab-case: '"
                                 \o name \o "'"]>>)
         \o (IF matches_directory THEN <<>>
             ELSE <<[type |-> "name_mismatch",
                     message |-> "Skill name '" \o name
                                 \o "' must match directory name '"
                                 \o directory_name \o "'"]>>)]

NAME_LIMIT == 64
DESCRIPTION_LIMIT == 1024

\* the limits taken as the first length that is too long
validate_hard_limits_Inclusive(name, description) ==
    LET name_bad == ~Falsy(name) /\ Len(name) >= NAME_LIMIT
        desc_bad == ~Falsy(description) /\ Len(description) >= DESCRIPTION_LIMIT
    IN  [name |->
            [length |-> IF Falsy(name) THEN 0 ELSE Len(name),
             limit |-> NAME_LIMIT,
             valid |-> ~name_bad,
             error |-> IF name_bad
                       THEN "Skill name too long (max 64 chars): " \o ToString(Len(name))
                       ELSE NULL],
         description |->
            [length |-> IF Falsy(description) THEN 0 ELSE Len(description),
             limit |-> DESCRIPTION_LIMIT,
             valid |-> ~desc_bad,
             error |-> IF desc_bad
                       THEN "Description too long (max 1024 chars per Anthropic): "
                            \o ToString(Len(description))
                       ELSE NULL]]

validate_hard_limits(name, description) ==
    LET name_bad == ~Falsy(name) /\ Len(name) > NAME_LIMIT
        desc_bad == ~Falsy(description) /\ Len(description) > DESCRIPTION_LIMIT
    IN  [name |->
            [length |-> IF Falsy(name) THEN 0 ELSE Len(name),
             limit |-> NAME_LIMIT,
             valid |-> ~name_bad,
             error |-> IF name_bad
                       THEN "Skill name too long (max 64 chars): " \o ToString(Len(name))
                       ELSE NULL],
         description |->
            [length |-> IF Falsy(description) THEN 0 ELSE Len(description),
             limit |-> DESCRIPTION_LIMIT,
             valid |-> ~desc_bad,
             error |-> IF desc_bad
                       THEN "Description too long (max 1024 chars per Anthropic): "
                            \o ToString(Len(description))
                       ELSE NULL]]

(***************************************************************************)
(* text-analysis.ts                                                        *)
(***************************************************************************)
\* text.trim().split(/\s+/).filter((w) => w.length > 0).length:
\* the number of maximal runs of characters that are not white space
count_words(text) ==
    Cardinality({i \in 1..Len(text) :
                    ~IsSpace(CharAt(text, i)) /\ (i = 1 \/ IsSpace(CharAt(text, i - 1)))})

\* Math.round(word_count * 1.3)
estimate_tokens(word_count) == (word_count * 13 + 5) \div 10

\* the estimate taken from the characters of the text, not from its words
estimate_string_tokens_OfLength(text) == estimate_tokens(Len(text))

estimate_string_tokens(text) == estimate_tokens(count_words(text))

\* text.replace(/<!--[\s\S]*?-->/g, '')
RECURSIVE strip_html_comments(_)
strip_html_comments(text) ==
    LET i == IndexOf(text, "<!--", 1)
        j == IF i = 0 THEN 0 ELSE IndexOf(text, "-->", i + 4)
    IN  IF i = 0 \/ j = 0 THEN text
        ELSE SubSeq(text, 1, i - 1) \o strip_html_comments(Slice(text, j + 3))

UPPERCASE == "ABCDEFGHIJKLMNOPQRSTUVWXYZ"
LOWERCASE == "abcdefghijklmnopqrstuvwxyz"

\* the lower-case letter of each upper-case letter
LOWER_OF == [c \in UPPER_LETTERS |-> CharAt(LOWERCASE, IndexOf(UPPERCASE, c, 1))]

LowerChar(c) == IF c \in UPPER_LETTERS THEN LOWER_OF[c] ELSE c

\* String.prototype.toLowerCase() on ASCII text
RECURSIVE toLowerCase(_)
toLowerCase(s) ==
    IF \A i \in 1..Len(s) : SubSeq(s, i, i) \notin UPPER_LETTERS THEN s
    ELSE IF Len(s) = 1 THEN LowerChar(s)
    ELSE toLowerCase(SubSeq(s, 1, Len(s) \div 2))
         \o toLowerCase(Slice(s, Len(s) \div 2 + 1))

\* a character of a keyword: what survives .replace(/[^\w\s-]/g, ' ') and is not white space
KEYWORD_CHARS == WORD_CHARS \cup {"-"}
IsKeywordChar(c) == c \in KEYWORD_CHARS

\* the end (exclusive) of the run of keyword characters started at position i
KeywordEnd(s, i) ==
    CHOOSE e \in i..(Len(s) + 1) :
        ~IsKeywordChar(CharAt(s, e)) /\ \A j \in i..(e - 1) : IsKeywordChar(CharAt(s, j))

STOPWORDS == {"this", "that", "with", "from", "have", "will", "when", "what", "where",
              "which", "their", "them", "then", "than", "these", "those", "there"}

\* the words of extract_keywords, in the order of the text, before deduplication
RECURSIVE KeywordsFrom(_, _, _)
KeywordsFrom(low, i, acc) ==
    IF i > Len(low) THEN acc
    ELSE IF ~IsKeywordChar(CharAt(low, i)) THEN KeywordsFrom(low, i + 1, acc)
    ELSE LET e == KeywordEnd(low, i)
             w == SubSeq(low, i, e - 1)
         IN  KeywordsFrom(low, e,
                 IF Len(w) > 3 /\ w \notin STOPWORDS /\ ~InSeq(w, acc)
                 THEN Append(acc, w) ELSE acc)

\* extract_keywords(text): lowercase words longer than 3, deduplicated, stop words removed
extract_keywords(text) == KeywordsFrom(toLowerCase(text), 1, <<>>)

\* the same keywords as a set, for texts too long to walk word by word
extract_keyword_set(text) ==
    LET low == toLowerCase(text)
        starts == {i \in 1..Len(low) :
                      IsKeywordChar(CharAt(low, i)) /\ ~IsKeywordChar(CharAt(low, i - 1))}
        words == {SubSeq(low, i, KeywordEnd(low, i) - 1) : i \in starts}
    IN  {w \in words : Len(w) > 3 /\ w \notin STOPWORDS}

(***************************************************************************)
(* description-validator.ts.  The glyphs of the messages (the arrow, the   *)
(* cross and the warning sign) are written in ASCII.                       *)
(***************************************************************************)
DESC_MAX == 300
DESC_RECOMMENDED == 200
LIST_BLOAT_LENGTH == 150
LIST_BLOAT_COMMAS == 5
SHORT_DESCRIPTION == 20

has_trigger_phrase(description) ==
    LET lower_desc == toLowerCase(description)
    IN  \/ includes(lower_desc, "use when")
        \/ includes(lower_desc, "use for")
        \/ includes(lower_desc, "use to")

comma_count(description) ==
    Cardinality({i \in 1..Len(description) : CharAt(description, i) = ","})

validate_description_content(description) ==
    LET desc_length == Len(description)
        desc_tokens == estimate_string_tokens(description)
        commas      == comma_count(description)
    IN  [stats |-> [description_length |-> desc_length,
                    description_tokens |-> desc_tokens],
         errors |->
            IF desc_length > DESC_MAX
            THEN <<[type |-> "length",
                    message |-> "Description is " \o ToString(desc_length)
                        \o " characters (MAX: 300 for efficiency)\n"
                        \o "  -> Keep descriptions concise - quality over quantity"]>>
            ELSE <<>>,
         warnings |->
            (IF desc_length <= DESC_MAX /\ desc_length > DESC_RECOMMENDED
             THEN <<[type |-> "length",
                     message |-> "Description is " \o ToString(desc_length)
                         \o " characters (recommended: <200)\n"
                         \o "  -> Estimated ~" \o ToString(desc_tokens)
                         \o " tokens - consider shortening"]>>
             ELSE <<>>)
         \o (IF ~has_trigger_phrase(description)
             THEN <<[type |-> "trigger",
                     message |-> "Description missing trigger keywords ('Use when...', 'Use for...', 'Use to...')\n"
                         \o "  -> Help Claude know when to activate this skill"]>>
             ELSE <<>>)
         \o (IF desc_length > LIST_BLOAT_LENGTH /\ commas >= LIST_BLOAT_COMMAS
             THEN <<[type |-> "list_bloat",
                     message |-> "Description contains long lists (" \o ToString(commas)
                         \o " commas, " \o ToString(desc_length) \o " chars)\n"
                         \o "  -> Move detailed lists to Level 2 (SKILL.md body) or Level 3 (references/)"]>>
             ELSE <<>>)
         \o (IF desc_length < SHORT_DESCRIPTION
             THEN <<[type |-> "short",
                     message |-> "Description is very short (consider adding more detail)"]>>
             ELSE <<>>)]

\* the end (exclusive) of [^.!?]* started at position i
SentenceEnd(s, i) ==
    IF i > Len(s) THEN i
    ELSE CHOOSE e \in i..(Len(s) + 1) :
            /\ e > Len(s) \/ CharAt(s, e) \in {".", "!", "?"}
            /\ \A j \in i..(e - 1) : CharAt(s, j) \notin {".", "!", "?"}

SPECIFIC_TRIGGER_LENGTH == 50

analyze_trigger_phrase(description) ==
    LET lower == toLowerCase(description)
        has_trigger == has_trigger_phrase(description)
        \* /(use when|use for|use to)[^.!?]*/i: the leftmost match
        starts == {i \in 1..Len(lower) :
                      MatchAt(lower, i, "use when") \/ MatchAt(lower, i, "use for")
                      \/ MatchAt(lower, i, "use to")}
        first == CHOOSE i \in starts : \A j \in starts : i <= j
        phrase == IF has_trigger
                  THEN trim(SubSeq(description, first, SentenceEnd(description, first) - 1))
                  ELSE NULL
    IN  [has_explicit_trigger |-> has_trigger,
         trigger_phrase |-> phrase,
         trigger_type |-> IF ~has_trigger THEN "missing"
                          ELSE IF Len(phrase) > SPECIFIC_TRIGGER_LENGTH THEN "specific"
                          ELSE "generic"]

\* \b between positions i-1 and i
WordBoundary(s, i) == IsWordChar(CharAt(s, i - 1)) # IsWordChar(CharAt(s, i))

\* /\b(alt1|alt2|...)\b/i matched at position i: the length matched, 0 without a match
RECURSIVE AltMatchLen(_, _, _, _)
AltMatchLen(low, i, alts, k) ==
    IF k > Len(alts) THEN 0
    ELSE IF /\ MatchAt(low, i, alts[k])
            /\ WordBoundary(low, i)
            /\ WordBoundary(low, i + Len(alts[k]))
         THEN Len(alts[k])
    ELSE AltMatchLen(low, i, alts, k + 1)

\* the text of the leftmost match of /\b(alts)\b/i in s, NULL without a match
FirstWordMatch(s, alts) ==
    LET low == toLowerCase(s)
        hits == {i \in 1..Len(s) :
                    WordBoundary(low, i) /\ AltMatchLen(low, i, alts, 1) > 0}
        first == CHOOSE i \in hits : \A j \in hits : i <= j
    IN  IF hits = {} THEN NULL
        ELSE SubSeq(s, first, first + AltMatchLen(low, first, alts, 1) - 1)

FIRST_PERSON == <<"i can", "i will", "i help", "my", "me">>
VAGUE_TERMS == <<"helper", "utility", "tool", "various", "several", "some">>
ACTION_VERBS == <<"create", "build", "design", "analyze", "test", "validate",
                  "generate", "process", "manage", "execute", "handle", "provide">>

analyze_user_phrasing(description) ==
    LET first_person == FirstWordMatch(description, FIRST_PERSON)
        vague        == FirstWordMatch(description, VAGUE_TERMS)
        low          == toLowerCase(description)
        \* /\b\w+ing\b/i
        uses_gerund  == \E i \in 2..Len(low) :
                           /\ MatchAt(low, i, "ing")
                           /\ IsWordChar(CharAt(low, i - 1))
                           /\ ~IsWordChar(CharAt(low, i + 3))
        \* /^(create|build|...)/i on description.trim()
        is_action_oriented ==
            \E k \in 1..Len(ACTION_VERBS) : startsWith(trim(low), ACTION_VERBS[k])
    IN  [analysis |->
            [style_checks |-> [is_third_person |-> first_person = NULL,
                               uses_gerund_form |-> uses_gerund,
                               is_action_oriented |-> is_action_oriented],
             issues |-> <<>>],
         warnings |->
            (IF first_person # NULL
             THEN <<[type |-> "first_person",
                     message |-> "Description uses first person: \"" \o first_person
                         \o "\"\n  -> Prefer third person for clarity (not required but recommended)"]>>
             ELSE <<>>)
         \o (IF vague # NULL
             THEN <<[type |-> "vague",
                     message |-> "Description contains vague term: \"" \o vague
                         \o "\"\n  -> Be specific about what the skill does"]>>
             ELSE <<>>)]

(***************************************************************************)
(* alignment-validator.ts                                                  *)
(***************************************************************************)
MIN_KEYWORDS == 5

RECURSIVE SelectKeywords(_, _, _)

\* the filter keeping the keywords it should drop
SelectKeywords_Inverted(seq, S, inS) ==
    IF Len(seq) = 0 THEN <<>>
    ELSE (IF (seq[1] \in S) # inS THEN <<seq[1]>> ELSE <<>>)
         \o SelectKeywords(Tail(seq), S, inS)

\* desc_keywords.filter((k) => content_keywords.includes(k)) and its complement
SelectKeywords(seq, S, inS) ==
    IF Len(seq) = 0 THEN <<>>
    ELSE (IF (seq[1] \in S) = inS THEN <<seq[1]>> ELSE <<>>)
         \o SelectKeywords(Tail(seq), S, inS)

\* Math.round(overlap_ratio * 100)
RoundPercent(k, n) == IF n = 0 THEN 0 ELSE (200 * k + n) \div (2 * n)

analyze_alignment(description, body) ==
    LET desc_keywords    == extract_keywords(description)
        content_keywords == extract_keyword_set(body)
        overlap   == SelectKeywords(desc_keywords, content_keywords, TRUE)
        desc_only == SelectKeywords(desc_keywords, content_keywords, FALSE)
        n == Len(desc_keywords)
        k == Len(overlap)
        \* overlap_ratio < 0.2 and < 0.3, with overlap_ratio = k / n
        below20 == n > 0 /\ 10 * k < 2 * n
        below30 == n > 0 /\ 10 * k < 3 * n
        severity == IF (n = 0 \/ below20) /\ n > MIN_KEYWORDS THEN "critical"
                    ELSE IF (n = 0 \/ below30) /\ n > MIN_KEYWORDS THEN "moderate"
                    ELSE "good"
    IN  [keywords |-> [description_keywords |-> desc_keywords,
                       overlap |-> overlap,
                       description_only |-> desc_only],
         alignment |-> [severity |-> severity, matches |-> overlap,
                        mismatches |-> desc_only],
         warnings |->
            IF (n = 0 \/ below30) /\ n > MIN_KEYWORDS
            THEN <<[type |-> "low_overlap",
                    message |-> "Low keyword overlap between description and content ("
                        \o ToString(RoundPercent(k, n)) \o "%)\n"
                        \o "  -> Description may not accurately reflect skill content"]>>
            ELSE <<>>]

(***************************************************************************)
(* content-validator.ts                                                    *)
(***************************************************************************)
MAX_WORDS == 1000
RECOMMENDED_WORDS == 500
MAX_LINES == 50
RECOMMENDED_LINES == 40
MAX_CODE_BLOCKS == 3
MAX_LONG_PARAGRAPHS == 3
LONG_PARAGRAPH_WORDS == 100
MAX_SECTIONS == 8
NO_REFERENCES_LINES == 60
SHORT_BODY == 100

\* the number of matches of /FENCE[\s\S]*?FENCE/g from position from on
RECURSIVE CountFenced(_, _)
CountFenced(body, from) ==
    LET i == IndexOf(body, FENCE, from)
        j == IF i = 0 THEN 0 ELSE IndexOf(body, FENCE, i + 3)
    IN  IF i = 0 \/ j = 0 THEN 0 ELSE 1 + CountFenced(body, j + 3)

\* the end (exclusive) of a run of the character c started at position i
RunEnd(s, i, c) ==
    CHOOSE e \in i..(Len(s) + 1) :
        CharAt(s, e) # c /\ \A j \in i..(e - 1) : CharAt(s, j) = c

\* /^#{1,6}\s/gm: the line starts holding one to six "#" and then white space
HeadingCount(body) ==
    Cardinality({i \in 1..Len(body) :
        /\ AtLineStart(body, i)
        /\ CharAt(body, i) = "#"
        /\ LET e == RunEnd(body, i, "#")
           IN  e - i <= 6 /\ IsSpace(CharAt(body, e))})

\* body.split(/\n\n+/), counting the parts of more than 100 words
RECURSIVE LongParagraphs(_)
LongParagraphs(body) ==
    LET i == IndexOf(body, "\n\n", 1)
        long(p) == IF count_words(p) > LONG_PARAGRAPH_WORDS THEN 1 ELSE 0
    IN  IF i = 0 THEN long(body)
        ELSE long(SubSeq(body, 1, i - 1))
             + LongParagraphs(Slice(body, RunEnd(body, i, "\n")))

analyze_content_structure(body) ==
    [code_blocks |-> CountFenced(body, 1),
     sections |-> HeadingCount(body),
     long_paragraphs |-> LongParagraphs(body)]

\* s.split('\n').length
LineCount(s) == Cardinality({i \in 1..Len(s) : CharAt(s, i) = "\n"}) + 1

\* validate_content(body): the mode the validator passes is not a parameter of it
validate_content(body) ==
    LET word_count == count_words(body)
        line_count == LineCount(trim(strip_html_comments(body)))
        structure  == analyze_content_structure(body)
        has_references == includes(body, "references/")
    IN  [stats |-> [word_count |-> word_count,
                    estimated_tokens |-> estimate_tokens(word_count),
                    line_count |-> line_count,
                    code_blocks |-> structure.code_blocks,
                    sections |-> structure.sections,
                    long_paragraphs |-> structure.long_paragraphs],
         errors |->
            (IF word_count > MAX_WORDS
             THEN <<[type |-> "word_count",
                     message |-> "SKILL.md body has " \o ToString(word_count)
                         \o " words (MAX: 1000)\n"
                         \o "  -> Move detailed content to references/ directory for Level 3 loading\n"
                         \o "  -> This is a hard limit - skills must be concise"]>>
             ELSE <<>>)
         \o (IF line_count > MAX_LINES
             THEN <<[type |-> "line_count",
                     message |-> "SKILL.md body is " \o ToString(line_count)
                         \o " lines (MAX: 50 for Level 2 progressive disclosure)\n"
                         \o "  -> Move detailed content to references/ directory\n"
                         \o "  -> This is a hard limit - skills must be concise"]>>
             ELSE <<>>),
         warnings |->
            (IF word_count <= MAX_WORDS /\ word_count > RECOMMENDED_WORDS
             THEN <<[type |-> "word_count",
                     message |-> "SKILL.md body has " \o ToString(word_count)
                         \o " words (recommended: <500, max: 1000)\n"
                         \o "  -> Consider moving examples/docs to references/ for better token efficiency"]>>
             ELSE <<>>)
         \o (IF line_count <= MAX_LINES /\ line_count > RECOMMENDED_LINES
             THEN <<[type |-> "line_count",
                     message |-> "SKILL.md body is " \o ToString(line_count)
                         \o " lines (recommended: ~40, max: 50)\n"
                         \o "  -> Consider moving examples to references/ for Level 3 loading"]>>
             ELSE <<>>)
         \o (IF structure.code_blocks > MAX_CODE_BLOCKS
             THEN <<[type |-> "code_blocks",
                     message |-> "SKILL.md contains " \o ToString(structure.code_blocks)
                         \o " code examples (recommended: 1-2)\n"
                         \o "  -> Move additional examples to references/examples.md for Level 3 loading"]>>
             ELSE <<>>)
         \o (IF structure.long_paragraphs > MAX_LONG_PARAGRAPHS
             THEN <<[type |-> "long_paragraphs",
                     message |-> "SKILL.md contains " \o ToString(structure.long_paragraphs)
                         \o " lengthy paragraphs (>100 words)\n"
                         \o "  -> Consider moving detailed explanations to references/"]>>
             ELSE <<>>)
         \o (IF structure.sections > MAX_SECTIONS
             THEN <<[type |-> "sections",
                     message |-> "SKILL.md contains " \o ToString(structure.sections)
                         \o " sections (recommended: 3-5)\n"
                         \o "  -> Consider splitting into focused reference files"]>>
             ELSE <<>>)
         \o (IF ~includes(body, "## Quick Start") /\ ~includes(body, "## Quick start")
             THEN <<[type |-> "missing_quick_start",
                     message |-> "Missing \"## Quick Start\" section\n"
                         \o "  -> Add one minimal working example to help Claude get started quickly"]>>
             ELSE <<>>)
         \o (IF ~has_references /\ line_count > NO_REFERENCES_LINES
             THEN <<[type |-> "no_references",
                     message |-> "No references/ links found but SKILL.md is "
                         \o ToString(line_count) \o " lines\n"
                         \o "  -> Consider splitting detailed content into reference files"]>>
             ELSE <<>>)
         \o (IF Len(trim(body)) < SHORT_BODY
             THEN <<[type |-> "short_body", message |-> "SKILL.md body is very short"]>>
             ELSE <<>>)
         \o (IF \/ includes(body, "TODO") \/ includes(body, "[Add your")
                \/ includes(body, "[Provide")
             THEN <<[type |-> "todo_placeholders",
                     message |-> "SKILL.md contains TODO placeholders"]>>
             ELSE <<>>)]

(***************************************************************************)
(* file-structure-validator.ts: validate_path_formats                      *)
(***************************************************************************)
PATH_ANCHORS == <<"scripts", "references", "assets", "examples">>

\* a character of [\w\\.-]
PATH_CHARS == WORD_CHARS \cup {"\\", ".", "-"}
IsPathChar(c) == c \in PATH_CHARS

PathRunEnd(s, i) ==
    CHOOSE e \in i..(Len(s) + 1) :
        ~IsPathChar(CharAt(s, e)) /\ \A j \in i..(e - 1) : IsPathChar(CharAt(s, j))

\* /(?:scripts|references|assets|examples)\\[\w\\.-]+/ matched at position i:
\* the end (exclusive) of the match, 0 without a match
BackslashMatchEnd(s, i) ==
    LET hit(k) == /\ MatchAt(s, i, PATH_ANCHORS[k] \o "\\")
                  /\ IsPathChar(CharAt(s, i + Len(PATH_ANCHORS[k]) + 1))
    IN  IF \E k \in 1..4 : hit(k)
        THEN PathRunEnd(s, i + Len(PATH_ANCHORS[CHOOSE k \in 1..4 : hit(k)]) + 1)
        ELSE 0

\* the line of content that holds position i
LineOf(content, i) ==
    LET before == {j \in 1..(i - 1) : CharAt(content, j) = "\n"}
        start  == IF before = {} THEN 1
                  ELSE 1 + (CHOOSE j \in before : \A k \in before : k <= j)
        n      == IndexOf(content, "\n", i)
    IN  [number |-> Cardinality(before) + 1,
         text |-> SubSeq(content, start, IF n = 0 THEN Len(content) ELSE n - 1)]

\* the matches of the pattern on the lines that do not start a fence, in order
RECURSIVE BackslashMatches(_, _)
BackslashMatches(content, from) ==
    LET bs == IndexOf(content, "\\", from)
        \* a match holds its first backslash: it starts an anchor's length before one
        cands == {bs - Len(PATH_ANCHORS[k]) : k \in 1..4}
        here  == {i \in cands : i >= from /\ BackslashMatchEnd(content, i) > 0}
    IN  IF bs = 0 THEN <<>>
        ELSE IF here = {} THEN BackslashMatches(content, bs + 1)
        ELSE LET i == CHOOSE x \in here : TRUE
                 e == BackslashMatchEnd(content, i)
                 line == LineOf(content, i)
             IN  (IF startsWith(trim(line.text), FENCE) THEN <<>>
                  ELSE <<[line_number |-> line.number,
                          path |-> SubSeq(content, i, e - 1)]>>)
                 \o BackslashMatches(content, e)

\* match.replace(/\\/g, '/')
RECURSIVE FixSlashes(_)
FixSlashes(path) ==
    LET i == IndexOf(path, "\\", 1)
    IN  IF i = 0 THEN path
        ELSE SubSeq(path, 1, i - 1) \o "/" \o FixSlashes(Slice(path, i + 1))

RECURSIVE PathIssues(_)
PathIssues(ms) ==
    IF Len(ms) = 0 THEN <<>>
    ELSE <<[line_number |-> ms[1].line_number,
            path |-> ms[1].path,
            error |-> "Windows-style backslash detected",
            suggested_fix |-> FixSlashes(ms[1].path)]>> \o PathIssues(Tail(ms))

RECURSIVE PathErrors(_)
PathErrors(issues) ==
    IF Len(issues) = 0 THEN <<>>
    ELSE <<[type |-> "windows_path",
            message |-> "Windows-style path in SKILL.md:"
                \o ToString(issues[1].line_number) \o "\n"
                \o "  -> Found: " \o issues[1].path \o "\n"
                \o "  -> Use: " \o issues[1].suggested_fix]>> \o PathErrors(Tail(issues))

validate_path_formats(content) ==
    LET invalid_paths == PathIssues(BackslashMatches(content, 1))
    IN  [validation |-> [invalid_paths |-> invalid_paths],
         errors |-> PathErrors(invalid_paths)]

(***************************************************************************)
(* The package on disk.  pkg is a record:                                  *)
(*   path        the skill_path the validator is given                     *)
(*   root        "absent", "file" or "dir": what stands at that path       *)
(*   skill_md    [kind: "absent" | "file" | "dir", content]                *)
(*   references  [kind: "absent" | "file" | "dir", entries]: the entries   *)
(*               are regular files [name, content], in readdirSync's order *)
(*   scripts     [kind, entries]: entries [name, kind, executable,         *)
(*               content], kind "file" or "dir"                            *)
(*   assets      [kind, entries]: entries are names                        *)
(* Linked paths are looked up as written: the model holds no path that     *)
(* path.join would rewrite (no "." or ".." segment, no doubled slash).     *)
(***************************************************************************)
\* existsSync(join(skill_path, 'SKILL.md'))
SkillMdExists(p) == p.root = "dir" /\ p.skill_md.kind # "absent"

\* existsSync(join(skill_path, dir)) for one of the three auxiliary directories
AuxExists(p, aux) == p.root = "dir" /\ aux.kind # "absent"

\* the entry of references/ a linked path names, 0 when it names none
RefEntry(p, file_path) ==
    LET hits == {i \in 1..Len(p.references.entries) :
                    "references/" \o p.references.entries[i].name = file_path}
    IN  IF p.root = "dir" /\ p.references.kind = "dir" /\ hits # {}
        THEN CHOOSE i \in hits : TRUE ELSE 0

\* existsSync(join(skill_path, file_path)) for a linked path
RefExists(p, file_path) == RefEntry(p, file_path) # 0

(***************************************************************************)
(* file-structure-validator.ts: directory, scripts, assets                 *)
(***************************************************************************)
validate_directory(p) ==
    IF p.root = "absent"
    THEN [valid |-> FALSE,
          errors |-> <<[type |-> "not_found",
                        message |-> "Skill directory does not exist: " \o p.path]>>]
    ELSE IF p.root # "dir"
    THEN [valid |-> FALSE,
          errors |-> <<[type |-> "not_directory",
                        message |-> "Path is not a directory: " \o p.path]>>]
    ELSE [valid |-> TRUE, errors |-> <<>>]

IsScriptName(f) ==
    endsWith(f, ".js") \/ endsWith(f, ".ts") \/ endsWith(f, ".mjs") \/ endsWith(f, ".sh")

RECURSIVE ScriptFiles(_)
ScriptFiles(entries) ==
    IF Len(entries) = 0 THEN <<>>
    ELSE (IF IsScriptName(entries[1].name) THEN <<entries[1]>> ELSE <<>>)
         \o ScriptFiles(Tail(entries))

\* the loop of validate_scripts over script_files; readFileSync throws on a directory
RECURSIVE ScriptWarnings(_)
ScriptWarnings(files) ==
    IF Len(files) = 0 THEN [threw |-> FALSE, warnings |-> <<>>]
    ELSE LET f == files[1]
             rest == ScriptWarnings(Tail(files))
             first_line == split(f.content, "\n")[1]
         IN  IF f.kind = "dir" THEN [threw |-> TRUE, warnings |-> <<>>]
             ELSE [threw |-> rest.threw,
                   warnings |->
                      (IF ~f.executable
                       THEN <<[type |-> "not_executable",
                               message |-> "Script is not executable: " \o f.name]>>
                       ELSE <<>>)
                   \o (IF ~startsWith(first_line, "#!")
                       THEN <<[type |-> "missing_shebang",
                               message |-> "Script missing shebang: " \o f.name]>>
                       ELSE <<>>)
                   \o rest.warnings]

\* validate_scripts: threw when readdirSync or readFileSync throws
validate_scripts(p) ==
    IF ~AuxExists(p, p.scripts) THEN [threw |-> FALSE, warnings |-> <<>>]
    ELSE IF p.scripts.kind = "file" THEN [threw |-> TRUE, warnings |-> <<>>]
    ELSE LET script_files == ScriptFiles(p.scripts.entries)
             loop == ScriptWarnings(script_files)
         IN  [threw |-> loop.threw,
              warnings |->
                 (IF Len(script_files) = 0
                  THEN <<[type |-> "empty_directory",
                          message |-> "scripts/ directory exists but is empty"]>>
                  ELSE <<>>) \o loop.warnings]

validate_assets(p) ==
    IF ~AuxExists(p, p.assets) THEN [threw |-> FALSE, warnings |-> <<>>]
    ELSE IF p.assets.kind = "file" THEN [threw |-> TRUE, warnings |-> <<>>]
    ELSE [threw |-> FALSE,
          warnings |->
             IF Len(p.assets.entries) = 0
             THEN <<[type |-> "empty_directory",
                     message |-> "assets/ directory exists but is empty"]>>
             ELSE <<>>]

(***************************************************************************)
(* references-validator.ts                                                 *)
(***************************************************************************)
TILDES == "~~~"

\* the first position >= from of a fence that has a closing fence after it, 0 if none
FencedStart(content, fence, from) ==
    LET i == IndexOf(content, fence, from)
    IN  IF i # 0 /\ IndexOf(content, fence, i + 3) # 0 THEN i ELSE 0

\* content.replace(/FENCE[\s\S]*?FENCE|~~~[\s\S]*?~~~/g, ''): StripBlock removes the
\* block that opens at i, StripAt picks the block that opens first (a and b are
\* where a block of either kind opens first, 0 for none)
RECURSIVE strip_code_blocks(_)
StripBlock(content, i, fence) ==
    SubSeq(content, 1, i - 1)
    \o strip_code_blocks(Slice(content, IndexOf(content, fence, i + 3) + 3))

StripAt(content, a, b) ==
    IF a = 0 /\ b = 0 THEN content
    ELSE IF b = 0 \/ (a # 0 /\ a < b) THEN StripBlock(content, a, FENCE)
    ELSE StripBlock(content, b, TILDES)

strip_code_blocks(content) ==
    StripAt(content, FencedStart(content, FENCE, 1), FencedStart(content, TILDES, 1))

\* /\[([^\]]+)\]\((references\/[^)]+\.md)\)/ matched with its "[" at position i:
\* close is the "]" that ends the link text, paren the ")" that ends the path
LinkBetween(s, i, close, paren) ==
    IF /\ CharAt(s, i) = "["
       /\ close > i + 1
       /\ MatchAt(s, close, "](references/")
       /\ paren # 0
       /\ paren - 3 > close + 13                  \* [^)]+ takes a character
       /\ MatchAt(s, paren - 3, ".md")
    THEN [ok |-> TRUE, text |-> SubSeq(s, i + 1, close - 1),
          path |-> SubSeq(s, close + 2, paren - 1), end |-> paren + 1]
    ELSE [ok |-> FALSE, text |-> "", path |-> "", end |-> 0]

LinkClosed(s, i, close) == LinkBetween(s, i, close, IndexOf(s, ")", close + 2))

LinkAt(s, i) == LinkClosed(s, i, IndexOf(s, "]", i + 1))

\* the matches of matchAll(reference_link_pattern) from position from on, in order
RECURSIVE LinkMatches(_, _)
MatchesAt(s, i, m) ==
    IF i = 0 THEN <<>>
    ELSE IF m.ok THEN <<[text |-> m.text, path |-> m.path]>> \o LinkMatches(s, m.end)
    ELSE LinkMatches(s, i + 1)

MatchesFrom(s, i) == MatchesAt(s, i, LinkAt(s, i))

LinkMatches(s, from) == MatchesFrom(s, IndexOf(s, "[", from))

RECURSIVE LinkPaths(_)
LinkPaths(ms) == IF Len(ms) = 0 THEN <<>> ELSE <<ms[1].path>> \o LinkPaths(Tail(ms))

RECURSIVE check_reference_nesting(_, _, _)
RECURSIVE NestingLoop(_, _, _, _)

\* the loop in which a linked file counts as visited for the links after it
NestingLoop_SiblingsVisited(p, references, visited, max_depth) ==
    IF Len(references) = 0 THEN max_depth
    ELSE NestingLoop(p, Tail(references), visited \cup {references[1]},
                     Max2(max_depth,
                          1 + check_reference_nesting(p, references[1], visited).depth))

\* the loop taking the depth of a linked file as it is, without the step to it
NestingLoop_NoStep(p, references, visited, max_depth) ==
    IF Len(references) = 0 THEN max_depth
    ELSE NestingLoop(p, Tail(references), visited,
                     Max2(max_depth,
                          check_reference_nesting(p, references[1], visited).depth))

\* the loop of check_reference_nesting over references, which hands each call its
\* own copy of visited
NestingLoop(p, references, visited, max_depth) ==
    IF Len(references) = 0 THEN max_depth
    ELSE NestingLoop(p, Tail(references), visited,
                     Max2(max_depth,
                          1 + check_reference_nesting(p, references[1], visited).depth))

\* the result for a file that exists and holds the links references
NestingOf(p, references, visited) ==
    IF Len(references) = 0 THEN [depth |-> 1, references |-> <<>>]
    ELSE [depth |-> NestingLoop(p, references, visited, 1),
          references |-> references]

\* the call counting a file met again on the path as a leaf
check_reference_nesting_RevisitIsLeaf(p, file_path, visited) ==
    IF file_path \in visited THEN [depth |-> 1, references |-> <<>>]
    ELSE IF ~RefExists(p, file_path) THEN [depth |-> 0, references |-> <<>>]
    ELSE NestingOf(p,
            LinkPaths(LinkMatches(strip_code_blocks(
                p.references.entries[RefEntry(p, file_path)].content), 1)),
            visited \cup {file_path})

\* check_reference_nesting(skill_path, file_path, visited)
check_reference_nesting(p, file_path, visited) ==
    IF file_path \in visited THEN [depth |-> 0, references |-> <<>>]
    ELSE IF ~RefExists(p, file_path) THEN [depth |-> 0, references |-> <<>>]
    ELSE NestingOf(p,
            LinkPaths(LinkMatches(strip_code_blocks(
                p.references.entries[RefEntry(p, file_path)].content), 1)),
            visited \cup {file_path})

RECURSIVE MdFiles(_)
MdFiles(entries) ==
    IF Len(entries) = 0 THEN <<>>
    ELSE (IF endsWith(entries[1].name, ".md") THEN <<entries[1].name>> ELSE <<>>)
         \o MdFiles(Tail(entries))

RECURSIVE NotMentioned(_, _)

\* the warnings for the files no link of the primary document names
NotMentioned_NotLinked(md_files, skill_content) ==
    IF Len(md_files) = 0 THEN <<>>
    ELSE (IF ~includes(skill_content, "](references/" \o md_files[1] \o ")")
          THEN <<[type |-> "orphaned_file",
                  message |-> "Reference file '" \o md_files[1]
                              \o "' not mentioned in SKILL.md"]>>
          ELSE <<>>) \o NotMentioned(Tail(md_files), skill_content)

\* the orphaned_file warnings: the files whose name the primary document does not hold
NotMentioned(md_files, skill_content) ==
    IF Len(md_files) = 0 THEN <<>>
    ELSE (IF ~includes(skill_content, md_files[1])
          THEN <<[type |-> "orphaned_file",
                  message |-> "Reference file '" \o md_files[1]
                              \o "' not mentioned in SKILL.md"]>>
          ELSE <<>>) \o NotMentioned(Tail(md_files), skill_content)

\* the turn warning about every linked file that exists, whatever its depth
LinkStep_WarnsAtDepth1(p, m, nest, rest) ==
    IF ~RefExists(p, m.path)
    THEN [rest EXCEPT
            !.missing_files = <<m.path>> \o @,
            !.errors = <<[type |-> "missing_file",
                          message |-> "Referenced file not found: " \o m.path
                              \o "\n  -> Linked from: [" \o m.text \o "]\n"
                              \o "  -> Create the file or remove the broken link"]>>
                       \o @]
    ELSE [rest EXCEPT
            !.warnings =
               <<[type |-> "nesting_depth",
                  message |-> m.path \o " has nesting depth "
                      \o ToString(nest.depth) \o " (recommended: 1)\n"
                      \o "  -> Keep references one level deep from SKILL.md for clarity"]>>
               \o @,
            !.nesting = <<[file |-> m.path, references |-> nest.references,
                           depth |-> nest.depth,
                           warning |-> nest.depth >= 1]>> \o @]

\* one turn of the loop over the links of the primary document: m is the link,
\* nest what check_reference_nesting says of its target, rest the turns after it
LinkStep(p, m, nest, rest) ==
    IF ~RefExists(p, m.path)
    THEN [rest EXCEPT
            !.missing_files = <<m.path>> \o @,
            !.errors = <<[type |-> "missing_file",
                          message |-> "Referenced file not found: " \o m.path
                              \o "\n  -> Linked from: [" \o m.text \o "]\n"
                              \o "  -> Create the file or remove the broken link"]>>
                       \o @]
    ELSE [rest EXCEPT
            !.warnings =
               (IF nest.depth > 1
                THEN <<[type |-> "nesting_depth",
                        message |-> m.path \o " has nesting depth "
                            \o ToString(nest.depth) \o " (recommended: 1)\n"
                            \o "  -> Keep references one level deep from SKILL.md for clarity"]>>
                ELSE <<>>) \o @,
            !.nesting = <<[file |-> m.path, references |-> nest.references,
                           depth |-> nest.depth,
                           warning |-> nest.depth > 1]>> \o @]

\* the loop over the links of the primary document
RECURSIVE LinkLoop(_, _)
LinkLoop(p, ms) ==
    IF Len(ms) = 0
    THEN [missing_files |-> <<>>, errors |-> <<>>, warnings |-> <<>>, nesting |-> <<>>]
    ELSE LinkStep(p, ms[1], check_reference_nesting(p, ms[1].path, {}),
                  LinkLoop(p, Tail(ms)))

RECURSIVE MaxDepth(_)
MaxDepth(nesting) ==
    IF Len(nesting) = 0 THEN 0 ELSE Max2(nesting[1].depth, MaxDepth(Tail(nesting)))

RECURSIVE Orphaned(_, _)
Orphaned(files_found, files_referenced) ==
    IF Len(files_found) = 0 THEN <<>>
    ELSE (IF \E i \in 1..Len(files_referenced) :
                includes(files_referenced[i], files_found[1])
          THEN <<>> ELSE <<files_found[1]>>)
         \o Orphaned(Tail(files_found), files_referenced)

\* the .md files readdirSync finds in references/
FilesFound(p) ==
    IF AuxExists(p, p.references) THEN MdFiles(p.references.entries) ELSE <<>>

\* the warnings of the first block of validate_references
DirectoryWarnings(p, md_files) ==
    IF ~AuxExists(p, p.references) THEN <<>>
    ELSE (IF Len(md_files) = 0
          THEN <<[type |-> "empty_directory",
                  message |-> "references/ directory exists but is empty"]>>
          ELSE <<>>)
      \o (IF SkillMdExists(p) THEN NotMentioned(md_files, p.skill_md.content)
          ELSE <<>>)

\* the links matchAll finds in the primary document without its code blocks
SkillLinks(p) ==
    IF SkillMdExists(p) THEN LinkMatches(strip_code_blocks(p.skill_md.content), 1)
    ELSE <<>>

\* what validate_references returns: md_files are the files found, files_referenced
\* the paths of the links of the primary document, loop what the loop on them collected
ReferencesResult(p, md_files, files_referenced, loop) ==
    [threw |-> FALSE,
     validation |-> [files_found |-> md_files,
                     files_referenced |-> files_referenced,
                     missing_files |-> loop.missing_files,
                     orphaned_files |-> Orphaned(md_files, files_referenced),
                     nesting |-> loop.nesting,
                     max_nesting_depth |-> MaxDepth(loop.nesting)],
     warnings |-> DirectoryWarnings(p, md_files) \o loop.warnings,
     errors |-> loop.errors]

ReferencesOf(p, links) ==
    ReferencesResult(p, FilesFound(p), LinkPaths(links), LinkLoop(p, links))

\* validate_references: threw when readdirSync or readFileSync throws
validate_references(p) ==
    IF \/ AuxExists(p, p.references) /\ p.references.kind = "file"
       \/ SkillMdExists(p) /\ p.skill_md.kind = "dir"
    THEN [threw |-> TRUE]
    ELSE ReferencesOf(p, SkillLinks(p))

(***************************************************************************)
(* core/validator.ts: SkillValidator                                       *)
(***************************************************************************)
MODES == {"strict", "lenient", "loose"}

ZERO_STATS ==
    [word_count |-> 0, estimated_tokens |-> 0, line_count |-> 0,
     description_length |-> 0, description_tokens |-> 0,
     code_blocks |-> 0, sections |-> 0, long_paragraphs |-> 0]

NO_REFERENCES ==
    [files_found |-> <<>>, files_referenced |-> <<>>, missing_files |-> <<>>,
     orphaned_files |-> <<>>, nesting |-> <<>>, max_nesting_depth |-> 0]

\* the field initialisers of the class; progressive_disclosure is set by validate_all
INITIAL_VALIDATION ==
    [hard_limits |->
        [name |-> [length |-> 0, limit |-> NAME_LIMIT, valid |-> TRUE, error |-> NULL],
         description |-> [length |-> 0, limit |-> DESCRIPTION_LIMIT, valid |-> TRUE,
                          error |-> NULL]],
     name_format |-> [name |-> "", format_valid |-> TRUE, directory_name |-> "",
                      matches_directory |-> TRUE, errors |-> <<>>],
     yaml_validation |-> [valid |-> TRUE, has_frontmatter |-> FALSE,
                          parse_error |-> NULL, missing_fields |-> <<>>],
     path_format |-> [invalid_paths |-> <<>>],
     triggering |->
        [trigger_phrase |-> [has_explicit_trigger |-> FALSE, trigger_phrase |-> NULL,
                             trigger_type |-> "missing"],
         user_phrasing |-> [style_checks |-> [is_third_person |-> TRUE,
                                              uses_gerund_form |-> TRUE,
                                              is_action_oriented |-> TRUE],
                            issues |-> <<>>],
         keywords |-> [description_keywords |-> <<>>, overlap |-> <<>>,
                       description_only |-> <<>>],
         alignment |-> [severity |-> "good", matches |-> <<>>, mismatches |-> <<>>]],
     progressive_disclosure |->
        [defined |-> FALSE,
         skill_md_size |-> [lines |-> 0, words |-> 0, tokens |-> 0,
                            exceeds_line_limit |-> FALSE, exceeds_word_limit |-> FALSE],
         references |-> NO_REFERENCES]]

\* new SkillValidator(skill_path, { mode })
NewValidator(mode) ==
    [mode |-> mode, errors |-> <<>>, warnings |-> <<>>, stats |-> ZERO_STATS,
     validation |-> INITIAL_VALIDATION]

ERROR_MARK == "[x] "
WARNING_MARK == "[!]  "

\* what this.error and this.warning push, for a list of { type, message }
RECURSIVE Marked(_, _)
Marked(diagnostics, mark) ==
    IF Len(diagnostics) = 0 THEN <<>>
    ELSE <<[type |-> diagnostics[1].type, message |-> mark \o diagnostics[1].message]>>
         \o Marked(Tail(diagnostics), mark)

\* this.error(msg) for each message of a list
PushErrors(self, diagnostics) ==
    [self EXCEPT !.errors = @ \o Marked(diagnostics, ERROR_MARK)]

\* this.warning(msg) for each message of a list
PushWarnings(self, diagnostics) ==
    [self EXCEPT !.warnings = @ \o Marked(diagnostics, WARNING_MARK)]

\* skill_path.replace(/\/+$/, '')
RECURSIVE StripTrailingSlashes(_)
StripTrailingSlashes(path) ==
    IF endsWith(path, "/") THEN StripTrailingSlashes(SubSeq(path, 1, Len(path) - 1))
    ELSE path

\* the last part of the path as it is written, trailing slashes and all
DirName_AsWritten(skill_path) ==
    LET parts == split(skill_path, "/") IN parts[Len(parts)]

\* normalized_path.split('/').pop() || ''
DirName(skill_path) ==
    LET parts == split(StripTrailingSlashes(skill_path), "/") IN parts[Len(parts)]

RECURSIVE MissingFieldErrors(_)
MissingFieldErrors(fields) ==
    IF Len(fields) = 0 THEN <<>>
    ELSE <<[type |-> "missing_field",
            message |-> "SKILL.md frontmatter missing '" \o fields[1] \o "' field"]>>
         \o MissingFieldErrors(Tail(fields))

\* the errors validate_skill_md pushes after the extraction of name and description
HeaderErrors(name_validation, hard_limits, desc_validation, content_validation) ==
    name_validation.errors
 \o (IF ~hard_limits.name.valid /\ ~Falsy(hard_limits.name.error)
     THEN <<[type |-> "hard_limit_name", message |-> hard_limits.name.error]>>
     ELSE <<>>)
 \o (IF ~hard_limits.description.valid /\ ~Falsy(hard_limits.description.error)
     THEN <<[type |-> "hard_limit_description",
             message |-> hard_limits.description.error]>>
     ELSE <<>>)
 \o desc_validation.errors
 \o content_validation.errors

\* the warnings validate_skill_md pushes after the extraction of name and description
HeaderWarnings(p, fm, desc_validation, trigger_analysis, phrasing, alignment_result, content_validation) ==
    (IF fm.description_is_multiline
     THEN <<[type |-> "multiline_description",
             message |-> "Multi-line description detected. Claude Code cannot recognize skills with multi-line descriptions.\n"
                 \o "  -> Run 'claude-skills-cli doctor " \o p.path
                 \o "' to fix automatically"]>>
     ELSE <<>>)
 \o desc_validation.warnings
 \o (IF ~trigger_analysis.has_explicit_trigger
     THEN <<[type |-> "missing_trigger_phrase",
             message |-> "Description missing explicit trigger phrase ('Use when...', 'Use for...', 'Use to...')\n"
                 \o "  -> Help Claude know when to activate this skill"]>>
     ELSE <<>>)
 \o phrasing.warnings
 \o alignment_result.warnings
 \o content_validation.warnings

\* the instance after the checks on name, description and body, given what each
\* validator returned
HeaderResults(self, p, fm, name_validation, hard_limits, desc_validation, trigger_analysis, phrasing, alignment_result, content_validation) ==
    [PushWarnings(
        PushErrors(self, HeaderErrors(name_validation, hard_limits, desc_validation,
                                      content_validation)),
        HeaderWarnings(p, fm, desc_validation, trigger_analysis, phrasing,
                       alignment_result, content_validation))
     EXCEPT
       !.stats = [word_count |-> content_validation.stats.word_count,
                  estimated_tokens |-> content_validation.stats.estimated_tokens,
                  line_count |-> content_validation.stats.line_count,
                  description_length |-> desc_validation.stats.description_length,
                  description_tokens |-> desc_validation.stats.description_tokens,
                  code_blocks |-> content_validation.stats.code_blocks,
                  sections |-> content_validation.stats.sections,
                  long_paragraphs |-> content_validation.stats.long_paragraphs],
       !.validation.name_format = name_validation,
       !.validation.hard_limits = hard_limits,
       !.validation.triggering =
           [trigger_phrase |-> trigger_analysis,
            user_phrasing |-> phrasing.analysis,
            keywords |-> alignment_result.keywords,
            alignment |-> alignment_result.alignment]]

\* the part of validate_skill_md that follows the extraction of name and description
HeaderChecks(self, p, fm) ==
    HeaderResults(self, p, fm,
                  validate_name_format(fm.name, DirName(p.path)),
                  validate_hard_limits(fm.name, fm.description),
                  validate_description_content(fm.description),
                  analyze_trigger_phrase(fm.description),
                  analyze_user_phrasing(fm.description),
                  analyze_alignment(fm.description, fm.body),
                  validate_content(fm.body))

\* the part of validate_skill_md that follows the two checks on the whole text: self
\* is the instance with their results recorded
AfterStructure(self, p, frontmatter_validation, fm) ==
    IF ~frontmatter_validation.valid
    THEN PushErrors(self,
            (IF ~Falsy(frontmatter_validation.parse_error)
             THEN <<[type |-> "parse_error",
                     message |-> frontmatter_validation.parse_error]>>
             ELSE <<>>)
            \o MissingFieldErrors(frontmatter_validation.missing_fields))
    ELSE IF Falsy(fm.name) \/ Falsy(fm.description)
    THEN PushErrors(self, <<[type |-> "extract_failed",
            message |-> "Failed to extract name or description from frontmatter"]>>)
    ELSE HeaderChecks(self, p, fm)

\* the instance with the results of validate_path_formats and
\* validate_frontmatter_structure recorded
WithStructure(self, path_format_result, frontmatter_validation) ==
    [PushErrors(self, path_format_result.errors) EXCEPT
        !.validation.path_format = path_format_result.validation,
        !.validation.yaml_validation = frontmatter_validation]

SkillMdChecks(self, p, content, frontmatter_validation) ==
    AfterStructure(WithStructure(self, validate_path_formats(content),
                                 frontmatter_validation),
                   p, frontmatter_validation, extract_frontmatter(content))

\* validate_skill_md(): threw when readFileSync throws; self is the instance afterwards
validate_skill_md(self, p) ==
    IF ~SkillMdExists(p)
    THEN [threw |-> FALSE,
          self |-> PushErrors(self, <<[type |-> "skill_md_not_found",
                                       message |-> "SKILL.md file not found"]>>)]
    ELSE IF p.skill_md.kind = "dir" THEN [threw |-> TRUE, self |-> self]
    ELSE [threw |-> FALSE,
          self |-> SkillMdChecks(self, p, p.skill_md.content,
                       validate_frontmatter_structure(p.skill_md.content))]

\* the limits validate_all compares the stats with, by mode
LINE_LIMIT_LOOSE == 500
LINE_LIMIT_LENIENT == 150
LINE_LIMIT_STRICT == 50
WORD_LIMIT_LOOSE == 5000
WORD_LIMIT_LENIENT == 2000
WORD_LIMIT_STRICT == 1000

line_limit(mode) ==
    IF mode = "loose" THEN LINE_LIMIT_LOOSE
    ELSE IF mode = "lenient" THEN LINE_LIMIT_LENIENT ELSE LINE_LIMIT_STRICT

word_limit(mode) ==
    IF mode = "loose" THEN WORD_LIMIT_LOOSE
    ELSE IF mode = "lenient" THEN WORD_LIMIT_LENIENT ELSE WORD_LIMIT_STRICT

\* the ValidationResult validate_all returns from the instance's fields
ResultOf(self, is_valid) ==
    [errors |-> self.errors, warnings |-> self.warnings, is_valid |-> is_valid,
     stats |-> self.stats, validation |-> self.validation]

NO_RESULT == ResultOf(NewValidator("strict"), FALSE)

\* how a validate_all() call ends: outcome is "returned" (with the result) or
\* "threw", at the step it ended at, self the instance afterwards
Ended(outcome, at, self, is_valid) ==
    [outcome |-> outcome, at |-> at, self |-> self,
     result |-> IF outcome = "returned" THEN ResultOf(self, is_valid) ELSE NO_RESULT]

\* this.structured_validation.progressive_disclosure = { ... }
WithSizes(self, references) ==
    [self EXCEPT !.validation.progressive_disclosure =
        [defined |-> TRUE,
         skill_md_size |->
            [lines |-> self.stats.line_count,
             words |-> self.stats.word_count,
             tokens |-> self.stats.estimated_tokens,
             exceeds_line_limit |-> self.stats.line_count > line_limit(self.mode),
             exceeds_word_limit |-> self.stats.word_count > word_limit(self.mode)],
         references |-> references]]

\* the return statement with is_valid also asking for an empty warnings list
Finish_WarningsInvalidate(self) ==
    Ended("returned", "end", self, Len(self.errors) = 0 /\ Len(self.warnings) = 0)

\* the return statement at the end of validate_all
Finish(self) == Ended("returned", "end", self, Len(self.errors) = 0)

\* the steps of validate_all in the order of the code, each on the instance the step
\* before left; a step that throws ends the call with the instance as it is
AfterAssets(self, references, assets_result) ==
    IF assets_result.threw THEN Ended("threw", "assets", self, FALSE)
    ELSE Finish(WithSizes(PushWarnings(self, assets_result.warnings), references))

AfterScripts(self, p, references, scripts_result) ==
    IF scripts_result.threw THEN Ended("threw", "scripts", self, FALSE)
    ELSE AfterAssets(PushWarnings(self, scripts_result.warnings), references,
                     validate_assets(p))

AfterReferences(self, p, refs_result) ==
    IF refs_result.threw THEN Ended("threw", "references", self, FALSE)
    ELSE AfterScripts(PushWarnings(PushErrors(self, refs_result.errors),
                                   refs_result.warnings),
                      p, refs_result.validation, validate_scripts(p))

AfterSkillMd(md, p) ==
    IF md.threw THEN Ended("threw", "skill_md", md.self, FALSE)
    ELSE AfterReferences(md.self, p, validate_references(p))

\* the directory step recording its error and going on to the other checks
AfterDirectory_NoEarlyReturn(self, p, dir_result) ==
    AfterSkillMd(validate_skill_md(PushErrors(self, dir_result.errors), p), p)

AfterDirectory(self, p, dir_result) ==
    IF ~dir_result.valid
    THEN Ended("returned", "directory", PushErrors(self, dir_result.errors), FALSE)
    ELSE AfterSkillMd(validate_skill_md(self, p), p)

\* validate_all() on the instance self
validate_all(self, p) == AfterDirectory(self, p, validate_directory(p))

(***************************************************************************)
(* The packages the model validates.                                       *)
(***************************************************************************)
\* n copies of s, one after the other
RECURSIVE Repeat(_, _)
Repeat(s, n) ==
    IF n = 0 THEN ""
    ELSE IF n = 1 THEN s
    ELSE LET half == Repeat(s, n \div 2)
         IN  IF n % 2 = 0 THEN half \o half ELSE half \o half \o s

HEADER == "---\nname: foo-skill\ndescription: Checks the foo widget setup. Use when testing widgets.\n---\n"

QUICK_START == "\n# Foo Skill\n\n## Quick Start\n\nRun the checks on the widget setup, then read the widget report for the foo result.\n"

LINK_A == "\nSee [the guide](references/a.md) for details.\n"
LINK_MISSING == "\nSee [the manual](references/zz.md) for more.\n"
MENTION_B == "\nThe tables are kept in b.md for now.\n"
FENCED_LINK == FENCE \o "\n[sample](references/zz.md)\n" \o FENCE \o "\n"

\* a body of about n lines and a body of about n words
LinesBody(n) == QUICK_START \o LINK_A \o Repeat("w\n", n)
WordsBody(n) == QUICK_START \o LINK_A \o Repeat("w ", n)

\* a body of about n lines that mentions no reference
PlainBody(n) == QUICK_START \o Repeat("w\n", n)

DOC_VALID == HEADER \o QUICK_START \o LINK_A

\* a document whose description is a folded block
DOC_MULTILINE ==
    "---\nname: foo-skill\ndescription: >\n  Checks the foo widget setup. Use when testing widgets.\n---\n"
    \o QUICK_START \o LINK_A

\* a document with these lines in its header block after the name
HeaderDoc(rest) == "---\nname: foo-skill\n" \o rest \o "---\n" \o QUICK_START \o LINK_A

\* a document whose description has n characters (n >= 56) and one whose name has
\* n characters (n >= 10)
DescDoc(n) ==
    "---\nname: foo-skill\ndescription: Checks the foo widget setup. Use when testing widgets. "
    \o Repeat("w", n - 55) \o "\n---\n" \o QUICK_START \o LINK_A
NameDoc(n) ==
    "---\nname: foo-skill-" \o Repeat("x", n - 10)
    \o "\ndescription: Checks the foo widget setup. Use when testing widgets.\n---\n"
    \o QUICK_START \o LINK_A

\* a document whose description has ten keywords, the first k of alpha, bravo and
\* charlie among the keywords of the body
AlignDoc(k) ==
    "---\nname: foo-skill\ndescription: Audits alpha bravo charlie delta echoes foxtrot golfing hotels. Use when juliet.\n---\n"
    \o QUICK_START \o LINK_A \o "\nThe notes cover "
    \o SubSeq("alpha bravo charlie", 1, CASE k = 0 -> 0 [] k = 1 -> 5 [] k = 2 -> 11 [] OTHER -> 19)
    \o " today.\n"

\* HTML comments that hold white space alone, on one line and over three
BLANK_COMMENTS == {"<!-- -->", "<!--\n \n-->"}

\* backslash-joined fragments and their forward-slash forms
WINDOWS_FRAGMENTS ==
    { [found |-> "scripts\\run.sh", use |-> "scripts/run.sh"],
      [found |-> "references\\docs\\a.md", use |-> "references/docs/a.md"] }

\* a body of 1600 words
BODY_1600 == WordsBody(1573)

\* the text with every line ended by CRLF in place of LF
WithCRLF(text) == join(split(text, "\n"), "\r\n")

\* primary documents: with and without a header block, with header blocks that
\* lack a field, with links that lead nowhere, with bodies around the size limits
DOCS ==
    { DOC_VALID,
      WithCRLF(DOC_VALID),
      "---\r\n" \o Slice(DOC_VALID, 5),
      HEADER \o QUICK_START \o LINK_A \o LINK_MISSING,
      HEADER \o QUICK_START \o LINK_A \o MENTION_B,
      DOC_MULTILINE,
      HeaderDoc("description:\nlicense: MIT\n"),
      HeaderDoc("description: Checks the foo widget setup.\n  Use when testing widgets.\nlicense: MIT\n"),
      HeaderDoc("description: Checks the foo widget setup. Use when testing widgets.\n  # a note\nlicense: MIT\n"),
      HeaderDoc("description: Checks the foo widget setup. Use when testing widgets.\nlicense: MIT\n  and more\n"),
      DescDoc(200), DescDoc(201), DescDoc(300), DescDoc(301), DescDoc(1024), DescDoc(1025),
      NameDoc(64), NameDoc(65),
      AlignDoc(0), AlignDoc(1), AlignDoc(2), AlignDoc(3),
      HEADER \o QUICK_START \o LINK_A \o "\nRun scripts\\run.sh, then read references\\docs\\a.md first.\n",
      HEADER \o QUICK_START \o LINK_A \o "\n" \o FENCE \o "\nscripts\\run.sh\n" \o FENCE \o "\n",
      HEADER \o QUICK_START \o "\nNotes <!-- --> follow.\n" \o LINK_A,
      HEADER \o QUICK_START \o "\nNotes <!--\n \n--> follow.\n" \o LINK_A,
      HEADER \o QUICK_START \o "\n" \o FENCED_LINK,
      HEADER \o QUICK_START \o LINK_A \o "\nType " \o FENCE \o " to open a block.\n\n" \o FENCED_LINK,
      QUICK_START \o LINK_A,
      QUICK_START \o LINK_MISSING,
      "# Foo\n---\nname: foo-skill\n---\n",
      "---\nname: foo-skill\n---\n" \o QUICK_START \o LINK_MISSING,
      "---\ndescription: Checks widgets. Use when testing.\n---\n" \o QUICK_START,
      "---\nlicense: MIT\n---\n" \o QUICK_START \o LINK_A,
      "---\nfilename: foo-skill\ndescription: Checks widgets. Use when testing.\n---\n" \o QUICK_START,
      "---\nname: foo-skill\ndescription: Checks widgets.\n" \o QUICK_START,
      "---\nname:\ndescription:\n---\n" \o QUICK_START,
      "---\nname: Foo_Skill\ndescription: I can help with some tool\n---\nTODO\n",
      HEADER \o PlainBody(30),
      HEADER \o PlainBody(40),
      HEADER \o PlainBody(60),
      HEADER \o LinesBody(25),
      HEADER \o LinesBody(35),
      HEADER \o LinesBody(50),
      HEADER \o LinesBody(140),
      HEADER \o WordsBody(480),
      HEADER \o BODY_1600 }

DirOf(entries) == [kind |-> "dir", entries |-> entries]
ABSENT == [kind |-> "absent", entries |-> <<>>]
A_FILE == [kind |-> "file", entries |-> <<>>]

Ref(name, content) == [name |-> name, content |-> content]
LinkTo(name) == "[" \o name \o "](references/" \o name \o ".md)\n"

REFS_DEFAULT == DirOf(<<Ref("a.md", "# A\n"), Ref("b.md", "# B\n")>>)

REFERENCES ==
    { ABSENT, A_FILE, DirOf(<<>>), REFS_DEFAULT,
      DirOf(<<Ref("a.md", "# A\n" \o LinkTo("b")), Ref("b.md", "# B\n" \o LinkTo("a"))>>),
      DirOf(<<Ref("a.md", "# A\n" \o LinkTo("zz")), Ref("notes.txt", "n\n")>>),
      DirOf(<<Ref("a.md", "# A\n" \o FENCE \o "\n" \o LinkTo("b") \o FENCE \o "\n"),
              Ref("b.md", "# B\n")>>) }

Script(name, kind, executable, content) ==
    [name |-> name, kind |-> kind, executable |-> executable, content |-> content]

SCRIPTS ==
    { ABSENT, A_FILE, DirOf(<<>>),
      DirOf(<<Script("run.sh", "file", TRUE, "#!/bin/sh\necho ok\n")>>),
      DirOf(<<Script("run.sh", "file", FALSE, "echo ok\n"),
              Script("README", "file", FALSE, "notes\n")>>),
      DirOf(<<Script("lib.js", "dir", TRUE, "")>>) }

ASSETS == { ABSENT, A_FILE, DirOf(<<>>), DirOf(<<"logo.png">>) }

FileOf(content) == [kind |-> "file", content |-> content]

Package(path, root, skill_md, references, scripts, assets) ==
    [path |-> path, root |-> root, skill_md |-> skill_md,
     references |-> references, scripts |-> scripts, assets |-> assets]

PATH == "skills/foo-skill"

\* the same directory written with trailing slashes, without a parent, and other
\* directories
OTHER_PATHS ==
    {"skills/foo-skill/", "skills/foo-skill//", "foo-skill", "skills/bar", "skills/bar/"}

\* every primary document in a package whose directories are in order; two primary
\* documents over every state of one auxiliary directory; the packages without a
\* root directory or without a readable primary document
PACKAGES ==
    { Package(PATH, "dir", FileOf(d), REFS_DEFAULT, ABSENT, ABSENT) : d \in DOCS }
    \cup { Package(PATH, "dir", FileOf(d), r, ABSENT, ABSENT) :
              d \in {DOC_VALID, QUICK_START \o LINK_A}, r \in REFERENCES }
    \cup { Package(PATH, "dir", FileOf(d), REFS_DEFAULT, sc, ABSENT) :
              d \in {DOC_VALID, QUICK_START \o LINK_A}, sc \in SCRIPTS }
    \cup { Package(PATH, "dir", FileOf(d), REFS_DEFAULT, ABSENT, a) :
              d \in {DOC_VALID, QUICK_START \o LINK_A}, a \in ASSETS }
    \cup { Package(path, "dir", FileOf(d), REFS_DEFAULT, ABSENT, ABSENT) :
              path \in OTHER_PATHS, d \in {DOC_VALID, DOC_MULTILINE} }
    \cup { Package(PATH, "absent", [kind |-> "absent", content |-> ""], ABSENT, ABSENT, ABSENT),
           Package(PATH, "file", [kind |-> "absent", content |-> ""], ABSENT, ABSENT, ABSENT),
           Package(PATH, "dir", [kind |-> "absent", content |-> ""], REFS_DEFAULT, DirOf(<<>>), DirOf(<<>>)),
           Package(PATH, "dir", [kind |-> "dir", content |-> ""], REFS_DEFAULT, ABSENT, ABSENT) }

\* the reference graphs: the files of references/ are the first n names, each file
\* holds links to any of the names (a link to a name past n leads to no file), and
\* the files hold MaxLinks links at most between them
NAMES == <<"a", "b", "c", "d">>

GraphsOn(n) ==
    {G \in SUBSET ((1..n) \X (1..Len(NAMES))) : Cardinality(G) <= MaxLinks}

RECURSIVE LinksOf(_, _, _)
LinksOf(G, i, j) ==
    IF j > Len(NAMES) THEN ""
    ELSE (IF <<i, j>> \in G THEN LinkTo(NAMES[j]) ELSE "") \o LinksOf(G, i, j + 1)

GraphFile(G, i) == Ref(NAMES[i] \o ".md", "# " \o NAMES[i] \o "\n" \o LinksOf(G, i, 1))

GraphPackage(n, G) ==
    Package(PATH, "dir", FileOf(DOC_VALID),
            DirOf([i \in 1..n |-> GraphFile(G, i)]), ABSENT, ABSENT)

\* the graph a -> b, a -> c, b -> d, c -> d
DIAMOND == {<<1, 2>>, <<1, 3>>, <<2, 4>>, <<3, 4>>}

GRAPH_PACKAGES ==
    UNION {{GraphPackage(n, G) : G \in GraphsOn(n)} : n \in 1..Len(NAMES)}
    \cup {GraphPackage(Len(NAMES), DIAMOND)}

(***************************************************************************)
(* The state machine: one package on disk, a validator constructed for it  *)
(* and validate_all() called on it.                                        *)
(***************************************************************************)
VARIABLES
    pkg,          \* the package on disk
    mode,         \* the validation mode the command is run with
    validator,    \* constructed or not, the SkillValidator, its calls so far
    nesting,      \* the last result of check_reference_nesting (SpecNesting)
    command,      \* the validate command: its options and how it ended (SpecCommand)
    doctor        \* the runs of the doctor command so far, in order (SpecDoctor)

vars == <<pkg, mode, validator, nesting, command, doctor>>

NOT_CONSTRUCTED ==
    [constructed |-> FALSE, self |-> NewValidator("strict"), calls |-> <<>>]

NO_NESTING == [file |-> "", depth |-> 0, references |-> <<>>]

\* the validate command before it has run, with the options it is given
NotRun(options) ==
    [options |-> options, exited |-> FALSE, threw |-> FALSE, exit_code |-> 0,
     result |-> NO_RESULT, output |-> <<>>]

NO_COMMAND ==
    NotRun([strict |-> FALSE, format |-> "text", lenient |-> FALSE, loose |-> FALSE])

Init ==
    /\ pkg \in PACKAGES
    /\ mode \in MODES
    /\ validator = NOT_CONSTRUCTED
    /\ nesting = NO_NESTING
    /\ command = NO_COMMAND
    /\ doctor = <<>>

\* new SkillValidator(skill_path, { mode })
Construct ==
    /\ ~validator.constructed
    /\ validator' = [constructed |-> TRUE, self |-> NewValidator(mode), calls |-> <<>>]
    /\ UNCHANGED <<pkg, mode, nesting, command, doctor>>

\* the instance after a validate_all() call that ended as r, the call recorded
AfterCall(v, r) ==
    [v EXCEPT !.self = r.self,
              !.calls = Append(@, [outcome |-> r.outcome, at |-> r.at,
                                   result |-> r.result])]

\* validator.validate_all()
ValidateAll ==
    /\ validator.constructed
    /\ Len(validator.calls) < MaxCalls
    /\ validator' = AfterCall(validator, validate_all(validator.self, pkg))
    /\ UNCHANGED <<pkg, mode, nesting, command, doctor>>

Next == Construct \/ ValidateAll

Spec == Init /\ [][Next]_vars

(***************************************************************************)
(* The depth computation on reference graphs: check_reference_nesting is   *)
(* called on a file of references/ and its result kept in nesting.         *)
(***************************************************************************)
InitNesting ==
    /\ pkg \in GRAPH_PACKAGES
    /\ mode = "strict"
    /\ validator = NOT_CONSTRUCTED
    /\ nesting = NO_NESTING
    /\ command = NO_COMMAND
    /\ doctor = <<>>

\* check_reference_nesting(skill_path, file_path) on the file of references/ with index i
CheckNesting(i) ==
    /\ nesting' = [file |-> "references/" \o pkg.references.entries[i].name]
                   @@ check_reference_nesting(
                          pkg, "references/" \o pkg.references.entries[i].name, {})
    /\ UNCHANGED <<pkg, mode, validator, command, doctor>>

NextNesting == \E i \in 1..Len(pkg.references.entries) : CheckNesting(i)

SpecNesting == InitNesting /\ [][NextNesting]_vars

(***************************************************************************)
(* The validate command: it constructs a validator for the path with the   *)
(* mode its options select, calls validate_all() once, prints the result   *)
(* as text or as JSON and ends the process with an exit code.              *)
(***************************************************************************)
SUCCESS_MARK == "[ok] "
FORMATS == {"text", "json"}

\* the options of the command: strict, format, lenient, loose
OPTIONS ==
    [strict : BOOLEAN, format : FORMATS, lenient : BOOLEAN, loose : BOOLEAN]

\* const mode = loose ? 'loose' : lenient ? 'lenient' : 'strict'
ModeOf(options) ==
    IF options.loose THEN "loose" ELSE IF options.lenient THEN "lenient" ELSE "strict"

\* the object the JSON branch prints
json_output(skill_name, result) ==
    [skill_name |-> skill_name, valid |-> result.is_valid, errors |-> result.errors,
     warnings |-> result.warnings, validation |-> result.validation,
     stats |-> result.stats]

\* the exit code of the JSON branch
JsonExit(result, strict) ==
    IF ~result.is_valid THEN 1
    ELSE IF strict /\ Len(result.warnings) > 0 THEN 1 ELSE 0

\* the final status line of the text branch
StatusLine(result) ==
    IF Len(result.errors) = 0 /\ Len(result.warnings) = 0
    THEN SUCCESS_MARK \o "Skill is valid!"
    ELSE IF Len(result.errors) = 0
    THEN SUCCESS_MARK \o "Skill is valid (with warnings)"
    ELSE ERROR_MARK \o "Skill validation failed with "
             \o ToString(Len(result.errors)) \o " error(s)"

\* the exit code of the text branch with every failing run reported as 1 whatever
\* the strict option
TextExit_WarningsFail(result, strict) ==
    IF ~result.is_valid THEN 1
    ELSE IF Len(result.warnings) > 0 THEN 1 ELSE 0

\* the exit code of the text branch
TextExit(result, strict) ==
    IF ~result.is_valid THEN 1
    ELSE IF strict /\ Len(result.warnings) > 0 THEN 1 ELSE 0

\* the lines the text branch prints after the statistics: the errors, the warnings,
\* the final status and the line of a run that fails on its warnings
TextLines(result, strict) ==
    (IF Len(result.errors) > 0
     THEN <<"\n" \o ERROR_MARK \o "Errors:">>
              \o [j \in 1..Len(result.errors) |-> "  " \o result.errors[j].message]
     ELSE <<>>)
    \o (IF Len(result.warnings) > 0
        THEN <<"\n" \o WARNING_MARK \o "Warnings:">>
                 \o [j \in 1..Len(result.warnings) |-> "  " \o result.warnings[j].message]
        ELSE <<>>)
    \o <<"", StatusLine(result)>>
    \o (IF result.is_valid /\ strict /\ Len(result.warnings) > 0
        THEN <<"\n" \o ERROR_MARK \o "Failed in strict mode due to warnings">>
        ELSE <<>>)

\* how the command ends on a validate_all() call that ended as r: a call that threw
\* is caught by the caller of the command, which ends the process with code 1
Exited(options, skill_name, r) ==
    IF r.outcome = "threw"
    THEN [options |-> options, exited |-> TRUE, threw |-> TRUE, exit_code |-> 1,
          result |-> NO_RESULT, output |-> <<>>]
    ELSE IF options.format = "json"
    THEN [options |-> options, exited |-> TRUE, threw |-> FALSE,
          exit_code |-> JsonExit(r.result, options.strict), result |-> r.result,
          output |-> <<json_output(skill_name, r.result)>>]
    ELSE [options |-> options, exited |-> TRUE, threw |-> FALSE,
          exit_code |-> TextExit(r.result, options.strict), result |-> r.result,
          output |-> TextLines(r.result, options.strict)]

\* basename(normalized_path), the path without its trailing slashes
SkillNameOf(skill_path) == DirName(skill_path)

\* validate_command(options) on the package p
validate_command(options, p) ==
    Exited(options, SkillNameOf(p.path),
           validate_all(NewValidator(ModeOf(options)), p))

InitCommand ==
    /\ pkg \in PACKAGES
    /\ mode = "strict"
    /\ validator = NOT_CONSTRUCTED
    /\ nesting = NO_NESTING
    /\ command \in {NotRun(options) : options \in OPTIONS}
    /\ doctor = <<>>

\* the command from the end r of its validate_all() call to the end of the process
EndOn(r) ==
    /\ validator' =
          AfterCall([constructed |-> TRUE, self |-> NewValidator(ModeOf(command.options)),
                     calls |-> <<>>], r)
    /\ command' = Exited(command.options, SkillNameOf(pkg.path), r)

\* the command runs from its start to the end of the process
ValidateCommand ==
    /\ ~command.exited
    /\ mode' = ModeOf(command.options)
    /\ EndOn(validate_all(NewValidator(ModeOf(command.options)), pkg))
    /\ UNCHANGED <<pkg, nesting, doctor>>

NextCommand == ValidateCommand

SpecCommand == InitCommand /\ [][NextCommand]_vars

(***************************************************************************)
(* The doctor command: it reads the primary document and, when its         *)
(* description is flagged multi-line, writes the document back with the    *)
(* description on one line under a prettier-ignore comment.                *)
(***************************************************************************)
\* the runs of the doctor command on one package (SpecDoctor)
MaxDoctorRuns == 2

PRETTIER_IGNORE == "# prettier-ignore"

\* the variables of the loop of fix_multiline_description before the first line
FIX_START ==
    [fixed_lines |-> <<>>, frontmatter_count |-> 0, in_frontmatter |-> FALSE,
     in_description |-> FALSE, description_parts |-> <<>>]

\* fixed_lines.push(line)
PassThrough(st, line) == [st EXCEPT !.fixed_lines = Append(@, line)]

\* fixed_lines.push(`description: ${description_parts.join(' ')}`), the parts emptied
\* and the description left
WriteDescription(st) ==
    [st EXCEPT !.fixed_lines = Append(@, "description: " \o join(st.description_parts, " ")),
               !.description_parts = <<>>,
               !.in_description = FALSE]

\* a line that is "---" once trimmed: the boundaries of the header block
FixDelimiter(st, line, count) ==
    [PassThrough(IF count = 2 /\ st.in_description THEN WriteDescription(st) ELSE st, line)
     EXCEPT !.frontmatter_count = count, !.in_frontmatter = (count = 1)]

\* line.match(/^description:\s*(.*)$/)[1].trim() on a line without a carriage return
ValueOnLine(line) == trim(Slice(line, Len("description:") + 1))

\* a line of the header block that starts with the description key; rest is the
\* text from this line to the end of the document
FixDescriptionLine(st, line, rest) ==
    IF ~is_description_multiline(rest) THEN PassThrough(st, line)
    ELSE [st EXCEPT
            !.in_description = TRUE,
            !.description_parts =
                IF ValueOnLine(line) # "" THEN Append(@, ValueOnLine(line)) ELSE @,
            !.fixed_lines = Append(@, PRETTIER_IGNORE)]

\* a line that follows the description key while the description is collected
FixContinuation(st, line) ==
    IF IsFieldLine(line) THEN PassThrough(WriteDescription(st), line)
    ELSE IF trim(line) # "" /\ ~startsWith(trim(line), "#")
    THEN [st EXCEPT !.description_parts = Append(@, trim(line))]
    ELSE st

\* one pass of the loop, on line i
FixLine(st, lines, i) ==
    IF trim(lines[i]) = "---"
    THEN FixDelimiter(st, lines[i], st.frontmatter_count + 1)
    ELSE IF ~st.in_frontmatter THEN PassThrough(st, lines[i])
    ELSE IF startsWith(lines[i], "description:")
    THEN FixDescriptionLine(st, lines[i], join(SubSeq(lines, i, Len(lines)), "\n"))
    ELSE IF st.in_description THEN FixContinuation(st, lines[i])
    ELSE PassThrough(st, lines[i])

\* the loop over lines i..Len(lines)
RECURSIVE FixLoop(_, _, _)
FixLoop(st, lines, i) ==
    IF i > Len(lines) THEN st ELSE FixLoop(FixLine(st, lines, i), lines, i + 1)

\* what follows the loop: a description still collected is written out
FixEnd(st) ==
    join(IF st.in_description /\ Len(st.description_parts) > 0
         THEN WriteDescription(st).fixed_lines ELSE st.fixed_lines, "\n")

fix_multiline_description(content) == FixEnd(FixLoop(FIX_START, split(content, "\n"), 1))

\* one run of doctor_command on the package p: whether the description was flagged,
\* whether the document was written, its text before and after, the exit code; a
\* primary document that cannot be read ends the run with code 1
DoctorRun(flagged, wrote, before, after, exit_code) ==
    [flagged |-> flagged, wrote |-> wrote, before |-> before, after |-> after,
     exit_code |-> exit_code]

doctor_command(p) ==
    IF p.root # "dir" \/ p.skill_md.kind # "file"
    THEN DoctorRun(FALSE, FALSE, "", "", 1)
    ELSE IF ~extract_frontmatter(p.skill_md.content).description_is_multiline
    THEN DoctorRun(FALSE, FALSE, p.skill_md.content, p.skill_md.content, 0)
    ELSE DoctorRun(TRUE, TRUE, p.skill_md.content,
                   fix_multiline_description(p.skill_md.content), 0)

\* primary documents for the doctor: the description on one line, folded, continued
\* on indented lines, without a value, as the last key and before another key
DOCTOR_DOCS ==
    { DOC_VALID,
      DOC_MULTILINE,
      QUICK_START \o LINK_A,
      HeaderDoc("description:\nlicense: MIT\n"),
      HeaderDoc("description: Checks the foo widget setup.\n  Use when testing widgets.\nlicense: MIT\n"),
      HeaderDoc("description: Checks the foo widget setup.\n  Use when testing widgets.\n"),
      HeaderDoc("description:\n  Checks the foo widget setup.\n  Use when testing widgets.\nlicense: MIT\n"),
      HeaderDoc("description: Checks the foo widget setup. Use when testing widgets.\n  # a note\nlicense: MIT\n"),
      HeaderDoc("description: >\n  Checks the foo widget setup.\n  # a note\n\n  Use when testing widgets.\nlicense: MIT\n"),
      HeaderDoc("description: Checks the foo widget setup. Use when testing widgets.\nlicense: MIT\n  and more\n"),
      HeaderDoc("description:\n"),
      HeaderDoc("description:\n") \o "\n---\n\nSteps:\n\n    npm test\n",
      DOC_MULTILINE \o "\n---\n\nSteps:\n\n    npm test\n" }

DOCTOR_PACKAGES ==
    { Package(PATH, "dir", FileOf(d), REFS_DEFAULT, ABSENT, ABSENT) : d \in DOCTOR_DOCS }
    \cup { Package(PATH, "dir", [kind |-> "absent", content |-> ""], ABSENT, ABSENT, ABSENT),
           Package(PATH, "absent", [kind |-> "absent", content |-> ""], ABSENT, ABSENT, ABSENT) }

InitDoctor ==
    /\ pkg \in DOCTOR_PACKAGES
    /\ mode = "strict"
    /\ validator = NOT_CONSTRUCTED
    /\ nesting = NO_NESTING
    /\ command \in {NotRun(options) : options \in {o \in OPTIONS : ~o.lenient /\ ~o.loose}}
    /\ doctor = <<>>

\* the doctor command runs from its start to the end of the process; the run is
\* kept with a note of whether the validate command had run before it
EndDoctor(run) ==
    /\ doctor' = Append(doctor, run @@ [validated |-> command.exited])
    /\ pkg' = IF run.wrote THEN [pkg EXCEPT !.skill_md.content = run.after] ELSE pkg

DoctorCommand ==
    /\ Len(doctor) < MaxDoctorRuns
    /\ EndDoctor(doctor_command(pkg))
    /\ UNCHANGED <<mode, validator, nesting, command>>

\* the doctor command, and the validate command once, on the package as the doctor
\* runs before it left it
NextDoctor == DoctorCommand \/ ValidateCommand

SpecDoctor == InitDoctor /\ [][NextDoctor]_vars

(***************************************************************************)
(* The claims.  A diagnostic of a result is [type, message]: the message   *)
(* is the string the code pushes, the type names the check that pushed it. *)
(***************************************************************************)
\* the validate_all() calls made so far, and those that returned a result
CallsMade == 1..Len(validator.calls)
ReturnedCalls == {k \in CallsMade : validator.calls[k].outcome = "returned"}

TypesOf(diagnostics) == {diagnostics[j].type : j \in 1..Len(diagnostics)}
CountOf(diagnostics, type) ==
    Cardinality({j \in 1..Len(diagnostics) : diagnostics[j].type = type})
MessagesOf(diagnostics) == {diagnostics[j].message : j \in 1..Len(diagnostics)}

\* the primary document is a regular file with this much of a header block
HasDocument == pkg.root = "dir" /\ pkg.skill_md.kind = "file"
StartsWithDelimiter ==
    startsWith(pkg.skill_md.content, "---\n") \/ startsWith(pkg.skill_md.content, "---\r\n")
HeaderBlock == split(pkg.skill_md.content, "---\n")[2]
HasHeaderBlock ==
    HasDocument /\ StartsWithDelimiter /\ Len(split(pkg.skill_md.content, "---\n")) >= 3
\* no line of the header block is the field's line
HeaderLacks(field) ==
    \A j \in 1..Len(split(HeaderBlock, "\n")) :
        ~startsWith(split(HeaderBlock, "\n")[j], field \o ":")

\* the diagnostics of the references, scripts and assets checks are in the result
AuxiliaryChecksIn(result) ==
    /\ MessagesOf(Marked(validate_references(pkg).errors, ERROR_MARK))
           \subseteq MessagesOf(result.errors)
    /\ MessagesOf(Marked(validate_references(pkg).warnings, WARNING_MARK))
           \subseteq MessagesOf(result.warnings)
    /\ MessagesOf(Marked(validate_scripts(pkg).warnings, WARNING_MARK))
           \subseteq MessagesOf(result.warnings)
    /\ MessagesOf(Marked(validate_assets(pkg).warnings, WARNING_MARK))
           \subseteq MessagesOf(result.warnings)
    /\ result.validation.progressive_disclosure.defined
    /\ result.validation.progressive_disclosure.references
           = validate_references(pkg).validation

\* the diagnostics of the checks on name, description, alignment and body size
HEADER_DEPENDENT ==
    {"name_format", "name_mismatch", "hard_limit_name", "hard_limit_description",
     "multiline_description", "length", "trigger", "list_bloat", "short",
     "missing_trigger_phrase", "first_person", "vague", "low_overlap",
     "word_count", "line_count"}

\* C1: in every result validate_all() returned, is_valid is true exactly when the
\* errors list is empty, whatever the number of warnings.
C1_ValidIffNoErrors ==
    \A k \in ReturnedCalls :
        validator.calls[k].result.is_valid <=> Len(validator.calls[k].result.errors) = 0

\* a result that is valid and holds warnings
C1_ValidWithWarnings ==
    \E k \in ReturnedCalls :
        /\ validator.calls[k].result.is_valid
        /\ Len(validator.calls[k].result.errors) = 0
        /\ Len(validator.calls[k].result.warnings) > 0

\* C2: whatever the state of the package, every validate_all() call returns a
\* result and none ends with an exception.
C2_AlwaysReturns ==
    \A k \in CallsMade : validator.calls[k].outcome = "returned"

\* C3: when the primary document has no header block, the first validate_all() call
\* on a validator returns a result that holds exactly one error for the header, and
\* in it the diagnostics of the references, scripts and assets checks.
C3_NoHeaderOneError ==
    (HasDocument /\ ~StartsWithDelimiter /\ Len(validator.calls) >= 1) =>
        /\ validator.calls[1].outcome = "returned"
        /\ CountOf(validator.calls[1].result.errors, "parse_error") = 1
        /\ TypesOf(validator.calls[1].result.errors)
               \cap {"missing_field", "extract_failed"} = {}
        /\ AuxiliaryChecksIn(validator.calls[1].result)

\* C4: when the header block lacks name or description, the result of the first
\* validate_all() call holds a missing-field error for each field that is absent and
\* no diagnostic on name, description, alignment or body size, and it holds the
\* diagnostics of the references, scripts and assets checks.
C4_MissingFieldReported ==
    (/\ HasHeaderBlock
     /\ HeaderLacks("name") \/ HeaderLacks("description")
     /\ 1 \in ReturnedCalls) =>
        /\ \A field \in {"name", "description"} :
              HeaderLacks(field) =>
                  ERROR_MARK \o "SKILL.md frontmatter missing '" \o field \o "' field"
                      \in MessagesOf(validator.calls[1].result.errors)
        /\ (TypesOf(validator.calls[1].result.errors)
               \cup TypesOf(validator.calls[1].result.warnings))
              \cap HEADER_DEPENDENT = {}
        /\ AuxiliaryChecksIn(validator.calls[1].result)

\* the thresholds the claims state for each mode
C6_LINES ==
    [strict |-> [good |-> 40, max |-> 50], lenient |-> [good |-> 100, max |-> 150],
     loose |-> [good |-> 200, max |-> 500]]
C6_WORDS ==
    [strict |-> [good |-> 500, max |-> 1000], lenient |-> [good |-> 1000, max |-> 2000],
     loose |-> [good |-> 2000, max |-> 5000]]

\* the result is of a call that measured the body
Measured(result) == result.stats.line_count > 0

\* a metric's diagnostics are those the claim states for the limits
AsClaimed(result, type, value, limits) ==
    /\ value > limits.max => CountOf(result.errors, type) >= 1
    /\ (value > limits.good /\ value <= limits.max) =>
          CountOf(result.warnings, type) >= 1 /\ CountOf(result.errors, type) = 0
    /\ value <= limits.good =>
          CountOf(result.warnings, type) = 0 /\ CountOf(result.errors, type) = 0

\* C6: in each mode, a word count or line count over the mode's max gives an error
\* for the metric, one over the mode's good and not over its max a warning and no
\* error, one at or below good neither.
C6_ThresholdsByMode ==
    (1 \in ReturnedCalls /\ Measured(validator.calls[1].result)) =>
        /\ AsClaimed(validator.calls[1].result, "word_count",
                     validator.calls[1].result.stats.word_count, C6_WORDS[mode])
        /\ AsClaimed(validator.calls[1].result, "line_count",
                     validator.calls[1].result.stats.line_count, C6_LINES[mode])

\* C7: a body of 1600 words gives a word-count error in strict mode, and in loose
\* mode a word-count warning and no word-count error.
C7_Body1600ByMode ==
    (1 \in ReturnedCalls /\ validator.calls[1].result.stats.word_count = 1600) =>
        /\ mode = "strict" =>
              CountOf(validator.calls[1].result.errors, "word_count") >= 1
        /\ mode = "loose" =>
              /\ CountOf(validator.calls[1].result.warnings, "word_count") >= 1
              /\ CountOf(validator.calls[1].result.errors, "word_count") = 0

\* the reference graph of the package: its files, the paths a link may name, and the
\* paths a file links to
GraphFiles ==
    {"references/" \o pkg.references.entries[i].name :
        i \in 1..Len(pkg.references.entries)}
GraphTargets == {"references/" \o NAMES[j] \o ".md" : j \in 1..Len(NAMES)}
LinksFrom(path) ==
    {q \in GraphTargets :
        includes(pkg.references.entries[RefEntry(pkg, path)].content,
                 "](" \o q \o ")")}
AllLinksExist == \A f \in GraphFiles : LinksFrom(f) \subseteq GraphFiles

\* the files reached from the files of S by n links at most
RECURSIVE Reached(_, _)
Reached(S, n) ==
    IF n = 0 THEN S
    ELSE Reached(S \cup UNION {LinksFrom(f) : f \in S \cap GraphFiles}, n - 1)
Acyclic ==
    \A f \in GraphFiles : f \notin Reached(LinksFrom(f), Cardinality(GraphFiles))

SetMax(S) == CHOOSE x \in S : \A y \in S : y <= x

\* the depth the claim states: 1 for a file without links, else 1 + the largest depth
\* of the files it links to
RECURSIVE DepthAsClaimed(_)
DepthAsClaimed(f) ==
    IF LinksFrom(f) = {} THEN 1
    ELSE 1 + SetMax({DepthAsClaimed(g) : g \in LinksFrom(f)})

\* C8: on an acyclic reference graph whose linked files all exist, the depth computed
\* for a file without links is 1 and for any other file 1 plus the largest depth of
\* the files it links to.
C8_DepthOfAcyclic ==
    (nesting.file # "" /\ Acyclic /\ AllLinksExist) =>
        nesting.depth = DepthAsClaimed(nesting.file)

\* the chain a -> b -> c -> d, with the depth 4 computed for a
C8_ChainDepth4 ==
    /\ Len(pkg.references.entries) = 4
    /\ LinksFrom("references/a.md") = {"references/b.md"}
    /\ LinksFrom("references/b.md") = {"references/c.md"}
    /\ LinksFrom("references/c.md") = {"references/d.md"}
    /\ LinksFrom("references/d.md") = {}
    /\ nesting.file = "references/a.md"
    /\ nesting.depth = 4

\* C9: on every reference graph, with self-links and cycles, the depth computed for a
\* file is a number from 1 to the number of files.
C9_DepthBounded ==
    nesting.file # "" =>
        nesting.depth >= 1 /\ nesting.depth <= Cardinality(GraphFiles)

\* the cycle a -> b -> a, with the depth computed for a
C9_CycleMeasured ==
    /\ "references/b.md" \in GraphFiles
    /\ "references/b.md" \in LinksFrom("references/a.md")
    /\ "references/a.md" \in LinksFrom("references/b.md")
    /\ nesting.file = "references/a.md"
    /\ nesting.depth = 2

\* the links of the primary document whose target is not a file of references/
MissingLinks ==
    {j \in 1..Len(SkillLinks(pkg)) : ~RefExists(pkg, SkillLinks(pkg)[j].path)}

\* C10: for every link [text](references/<path>.md) of the primary document whose
\* target does not exist, the call returns a result that holds an error naming the
\* link text and the path, lists the path in missing_files and has is_valid false.
C10_MissingTargetReported ==
    (HasDocument /\ Len(validator.calls) >= 1) =>
        \A j \in MissingLinks :
            /\ validator.calls[1].outcome = "returned"
            /\ ~validator.calls[1].result.is_valid
            /\ \E e \in MessagesOf(validator.calls[1].result.errors) :
                  /\ includes(e, "[" \o SkillLinks(pkg)[j].text \o "]")
                  /\ includes(e, SkillLinks(pkg)[j].path)
            /\ InSeq(SkillLinks(pkg)[j].path,
                     validator.calls[1].result.validation
                         .progressive_disclosure.references.missing_files)

\* the markdown files of references/, the files a link of the primary document names
\* and the files a chain of links that starts at the primary document reaches
MarkdownFiles ==
    IF pkg.references.kind = "dir"
    THEN {pkg.references.entries[i].name : i \in
             {j \in 1..Len(pkg.references.entries) :
                 endsWith(pkg.references.entries[j].name, ".md")}}
    ELSE {}
LinkedFromPrimary ==
    {q \in GraphFiles : includes(pkg.skill_md.content, "](" \o q \o ")")}
ReachedFromPrimary == Reached(LinkedFromPrimary, Cardinality(GraphFiles))

\* the result holds the orphaned_file warning for the file
OrphanWarned(result, f) ==
    (WARNING_MARK \o "Reference file '" \o f \o "' not mentioned in SKILL.md")
        \in MessagesOf(result.warnings)

\* C11 as stated: an orphaned_file warning is in the result for a markdown file of
\* references/ exactly when no chain of links from the primary document reaches it.
C11_OrphanWhenUnreached ==
    HasDocument =>
        \A k \in ReturnedCalls : \A f \in MarkdownFiles :
            OrphanWarned(validator.calls[k].result, f)
                <=> ("references/" \o f) \notin ReachedFromPrimary

\* C11 amended: in every result validate_all() returns, an orphaned_file warning is
\* there for a markdown file of references/ exactly when the primary document exists
\* and its text does not hold the name of the file; links between reference files
\* play no part.
C11_OrphanWhenNotMentioned ==
    \A k \in ReturnedCalls : \A f \in MarkdownFiles :
        OrphanWarned(validator.calls[k].result, f)
            <=> (pkg.skill_md.kind = "file" /\ ~includes(pkg.skill_md.content, f))

\* b.md is reached through a.md alone and warned about; in another package it is
\* named in the text without a link and not warned about
C11_ReachedButWarned ==
    /\ 1 \in ReturnedCalls
    /\ "references/b.md" \in ReachedFromPrimary \ LinkedFromPrimary
    /\ OrphanWarned(validator.calls[1].result, "b.md")

\* the fence a line opens or closes: the line, trimmed, starts with it
FenceOf(line) ==
    IF startsWith(trim(line), FENCE) THEN FENCE
    ELSE IF startsWith(trim(line), TILDES) THEN TILDES ELSE ""

\* the lines lo..hi that stand outside fenced code blocks, each with its line break,
\* and the fence of the block open after line hi; open is the fence of the block
\* line lo is in, "" outside a block
RECURSIVE OutsideBetween(_, _, _, _)
OutsideAfter(lines, mid, hi, left) ==
    [OutsideBetween(lines, mid + 1, hi, left.open) EXCEPT !.text = left.text \o @]
OutsideBetween(lines, lo, hi, open) ==
    IF lo > hi THEN [text |-> "", open |-> open]
    ELSE IF lo = hi
    THEN IF open = ""
         THEN [text |-> IF FenceOf(lines[lo]) = "" THEN lines[lo] \o "\n" ELSE "",
               open |-> FenceOf(lines[lo])]
         ELSE [text |-> "", open |-> IF FenceOf(lines[lo]) = open THEN "" ELSE open]
    ELSE OutsideAfter(lines, (lo + hi) \div 2, hi,
                      OutsideBetween(lines, lo, (lo + hi) \div 2, open))

OutsideFences(lines, open) == OutsideBetween(lines, 1, Len(lines), open).text

\* the paths the text links to only inside fenced code blocks
LINK_TARGETS == GraphTargets \cup {"references/zz.md"}
FencedOnly(text) ==
    {q \in LINK_TARGETS :
        /\ includes(text, "](" \o q \o ")")
        /\ ~includes(OutsideFences(split(text, "\n"), ""), "](" \o q \o ")")}

\* C12: a reference link that occurs only inside a fenced code block of the primary
\* document gives no missing-file error and is not in files_referenced, and one that
\* occurs only inside a fenced code block of a reference file is not among the links
\* the nesting of that file counts.
C12_FencedLinksIgnored ==
    (HasDocument /\ 1 \in ReturnedCalls) =>
        /\ \A q \in FencedOnly(pkg.skill_md.content) :
              /\ ~InSeq(q, validator.calls[1].result.validation
                               .progressive_disclosure.references.files_referenced)
              /\ \A e \in MessagesOf(validator.calls[1].result.errors) :
                    ~includes(e, q)
        /\ \A j \in 1..Len(validator.calls[1].result.validation
                               .progressive_disclosure.references.nesting) :
              LET n == validator.calls[1].result.validation
                           .progressive_disclosure.references.nesting[j]
              IN  \A q \in FencedOnly(pkg.references.entries[RefEntry(pkg, n.file)].content) :
                      ~InSeq(q, n.references)

\* the paths of the links of the primary document that lead to a file
ExistingLinked ==
    {SkillLinks(pkg)[j].path : j \in
        {i \in 1..Len(SkillLinks(pkg)) : RefExists(pkg, SkillLinks(pkg)[i].path)}}

\* the result holds a nesting_depth warning for the file
NestingWarned(result, path) ==
    \E w \in MessagesOf(result.warnings) :
        startsWith(w, WARNING_MARK \o path \o " has nesting depth ")

\* C13: in the result of validate_references as validate_all() returns it, a file
\* that exists and is linked from the primary document has a nesting_depth warning
\* exactly when the depth computed for it is greater than 1, and no error is about
\* nesting depth.
C13_WarnedWhenDeeperThan1 ==
    (HasDocument /\ 1 \in ReturnedCalls) =>
        /\ \A q \in ExistingLinked :
              NestingWarned(validator.calls[1].result, q)
                  <=> check_reference_nesting(pkg, q, {}).depth > 1
        /\ \A e \in MessagesOf(validator.calls[1].result.errors) :
              ~includes(e, "nesting depth")
        /\ "nesting_depth" \notin TypesOf(validator.calls[1].result.errors)

\* a linked file of depth 2 with its warning
C13_Depth2Warned ==
    /\ 1 \in ReturnedCalls
    /\ "references/a.md" \in ExistingLinked
    /\ check_reference_nesting(pkg, "references/a.md", {}).depth = 2
    /\ NestingWarned(validator.calls[1].result, "references/a.md")

\* the path without its trailing slashes and its last component
WithoutTrailingSlashes(path) ==
    SubSeq(path, 1,
           IF \E i \in 1..Len(path) : CharAt(path, i) # "/"
           THEN CHOOSE i \in 1..Len(path) :
                   CharAt(path, i) # "/" /\ \A j \in (i + 1)..Len(path) : CharAt(path, j) = "/"
           ELSE 0)
LastComponent(path) ==
    LET bare == WithoutTrailingSlashes(path)
        cuts == {i \in 1..Len(bare) : CharAt(bare, i) = "/"}
    IN  IF cuts = {} THEN bare
        ELSE SubSeq(bare, 1 + (CHOOSE i \in cuts : \A j \in cuts : j <= i), Len(bare))

\* the result of validate_all() on a new validator for the same package at a path
ResultAt(path) == validate_all(NewValidator(mode), [pkg EXCEPT !.path = path]).result

RECURSIVE TypeSeq(_)
TypeSeq(diagnostics) ==
    IF Len(diagnostics) = 0 THEN <<>>
    ELSE <<diagnostics[1].type>> \o TypeSeq(Tail(diagnostics))

\* the same errors, and the same warnings but for the path the hint of the
\* multi-line warning quotes as it was written
SameDiagnostics(r1, r2) ==
    /\ r1.errors = r2.errors
    /\ r1.is_valid = r2.is_valid
    /\ TypeSeq(r1.warnings) = TypeSeq(r2.warnings)
    /\ \A j \in 1..Len(r1.warnings) :
          r1.warnings[j].type # "multiline_description" => r1.warnings[j] = r2.warnings[j]

DescriptionOf == extract_frontmatter(pkg.skill_md.content).description
WordsOf(text) ==
    Cardinality({i \in 1..Len(text) :
        ~IsSpace(CharAt(text, i)) /\ (i = 1 \/ IsSpace(CharAt(text, i - 1)))})

NameOf == extract_frontmatter(pkg.skill_md.content).name

\* the result holds the hard-limit error that reports the length
TooLongReported(result, what, length) ==
    (ERROR_MARK \o what \o ToString(length)) \in MessagesOf(result.errors)

\* C16: a result of validate_all() that checked the header holds the hard-limit
\* error with the exact length for a name of more than 64 characters and for a
\* description of more than 1024, and no hard-limit error for a name of at most 64
\* and a description of at most 1024; in every result hard_limits.name.valid and
\* hard_limits.description.valid are false exactly when the error is in the result.
C16_HardLimits ==
    1 \in ReturnedCalls =>
        LET r == validator.calls[1].result
        IN  /\ r.validation.hard_limits.name.valid
                  <=> "hard_limit_name" \notin TypesOf(r.errors)
            /\ r.validation.hard_limits.description.valid
                  <=> "hard_limit_description" \notin TypesOf(r.errors)
            /\ (HasDocument /\ Measured(r)) =>
                  /\ IF Len(NameOf) > 64
                     THEN TooLongReported(r, "Skill name too long (max 64 chars): ",
                                          Len(NameOf))
                     ELSE "hard_limit_name" \notin TypesOf(r.errors)
                  /\ IF Len(DescriptionOf) > 1024
                     THEN TooLongReported(r,
                              "Description too long (max 1024 chars per Anthropic): ",
                              Len(DescriptionOf))
                     ELSE "hard_limit_description" \notin TypesOf(r.errors)

\* the name of 65 characters with its error
C16_NameOf65 ==
    /\ 1 \in ReturnedCalls
    /\ HasDocument
    /\ Len(NameOf) = 65
    /\ ~validator.calls[1].result.validation.hard_limits.name.valid
    /\ "hard_limit_name" \in TypesOf(validator.calls[1].result.errors)

\* the keywords of the description that are keywords of the body
SharedKeywords(description_keywords) ==
    {j \in 1..Len(description_keywords) :
        description_keywords[j]
            \in extract_keyword_set(extract_frontmatter(pkg.skill_md.content).body)}

\* the severity the claim states for n description keywords, k of them shared
SeverityAsClaimed(n, k) ==
    IF n <= 5 THEN "good"
    ELSE IF 5 * k < n THEN "critical"
    ELSE IF 10 * k < 3 * n THEN "moderate"
    ELSE "good"

\* C17: with n description keywords of which k are content keywords, the severity
\* of the alignment is good when n <= 5, and for n > 5 critical when k/n < 0.2,
\* moderate when 0.2 <= k/n < 0.3 and good otherwise; the low-overlap warning is in
\* the result exactly when the severity is moderate or critical.
C17_AlignmentSeverity ==
    (HasDocument /\ 1 \in ReturnedCalls /\ Measured(validator.calls[1].result)) =>
        LET r == validator.calls[1].result
            n == Len(r.validation.triggering.keywords.description_keywords)
            k == Cardinality(SharedKeywords(r.validation.triggering.keywords.description_keywords))
        IN  /\ r.validation.triggering.alignment.severity = SeverityAsClaimed(n, k)
            /\ CountOf(r.warnings, "low_overlap")
                 = (IF SeverityAsClaimed(n, k) = "good" THEN 0 ELSE 1)

\* ten description keywords of which two are shared: moderate, with the warning
C17_TwoOfTen ==
    /\ 1 \in ReturnedCalls
    /\ HasDocument
    /\ Len(validator.calls[1].result.validation.triggering.keywords.description_keywords) = 10
    /\ Len(validator.calls[1].result.validation.triggering.keywords.overlap) = 2
    /\ validator.calls[1].result.validation.triggering.alignment.severity = "moderate"
    /\ CountOf(validator.calls[1].result.warnings, "low_overlap") = 1

\* the text with every occurrence of the comment taken out
RECURSIVE Without(_, _)
Without(text, comment) ==
    IF IndexOf(text, comment, 1) = 0 THEN text
    ELSE SubSeq(text, 1, IndexOf(text, comment, 1) - 1)
         \o Without(Slice(text, IndexOf(text, comment, 1) + Len(comment)), comment)

\* the primary document holds the comment; the result of validate_all() on a new
\* validator for the package with the comment taken out of the document
BlankCommentsIn == {c \in BLANK_COMMENTS : includes(pkg.skill_md.content, c)}
ResultWithout(comment) ==
    validate_all(NewValidator(mode),
                 [pkg EXCEPT !.skill_md.content = Without(@, comment)]).result

\* the size diagnostics of a result
SizeDiagnostics(result) ==
    [errors |-> TypesOf(result.errors) \cap {"word_count", "line_count"},
     warnings |-> TypesOf(result.warnings) \cap {"word_count", "line_count"}]

\* C18: a body with an HTML comment that holds white space alone has the line count,
\* the word count and the size diagnostics of the body without the comment.
C18_BlankCommentsNeutral ==
    (HasDocument /\ 1 \in ReturnedCalls /\ Measured(validator.calls[1].result)) =>
        \A c \in BlankCommentsIn :
            /\ validator.calls[1].result.stats.line_count
                 = ResultWithout(c).stats.line_count
            /\ validator.calls[1].result.stats.word_count
                 = ResultWithout(c).stats.word_count
            /\ SizeDiagnostics(validator.calls[1].result)
                 = SizeDiagnostics(ResultWithout(c))

\* the result holds the Windows-path error for the fragment
WindowsPathReported(result, fragment) ==
    \E e \in MessagesOf(result.errors) :
        /\ includes(e, "Found: " \o fragment.found \o "\n")
        /\ endsWith(e, "Use: " \o fragment.use)

\* C19: the result holds a Windows-path error with the fragment and its
\* forward-slash form for every backslash-joined fragment on a line outside fenced
\* code blocks, and no error names a fragment that stands only on lines between an
\* opening and a closing fence.
C19_WindowsPathsOutsideFences ==
    (HasDocument /\ 1 \in ReturnedCalls) =>
        \A fragment \in WINDOWS_FRAGMENTS :
            IF includes(OutsideFences(split(pkg.skill_md.content, "\n"), ""), fragment.found)
            THEN WindowsPathReported(validator.calls[1].result, fragment)
            ELSE \A e \in MessagesOf(validator.calls[1].result.errors) :
                    ~includes(e, fragment.found)

\* ---- C20 ----
\* the command has ended on a result of validate_all()
CommandEnded == command.exited /\ ~command.threw

\* the command run on the same package with the strict option the other way round,
\* and with the other output format
WithStrictFlipped ==
    validate_command([command.options EXCEPT !.strict = ~@], pkg)
WithOtherFormat ==
    validate_command([command.options EXCEPT
                         !.format = IF @ = "text" THEN "json" ELSE "text"], pkg)

\* two results with the same is_valid, the same errors and the same warnings
SameVerdict(r1, r2) ==
    r1.is_valid = r2.is_valid /\ r1.errors = r2.errors /\ r1.warnings = r2.warnings

\* the exit code the documentation gives a result
ExitAsDocumented(result, strict) ==
    IF Len(result.errors) > 0 THEN 1
    ELSE IF strict /\ Len(result.warnings) > 0 THEN 1 ELSE 0

\* C20: a validate command that ends on a result exits with code 1 when the result
\* has at least one error, with code 1 when the strict option is set and the result
\* has at least one warning, and with code 0 in every other case; the same command
\* with the other output format exits with the same code; the same command with the
\* strict option the other way round gets the same is_valid, errors and warnings.
C20_ExitCodes ==
    CommandEnded =>
        /\ command.exit_code = ExitAsDocumented(command.result, command.options.strict)
        /\ WithOtherFormat.exit_code = command.exit_code
        /\ SameVerdict(WithStrictFlipped.result, command.result)

\* a text run without the strict option on a result with warnings only exits with 0,
\* and the same run with the option exits with 1
C20_WarningsOnly ==
    /\ CommandEnded
    /\ command.options.format = "text"
    /\ ~command.options.strict
    /\ Len(command.result.errors) = 0
    /\ Len(command.result.warnings) > 0
    /\ command.exit_code = 0
    /\ WithStrictFlipped.exit_code = 1

\* ---- C21 ----
\* the lines of the header block, and the first of them that holds the description key
HeaderLines == split(HeaderBlock, "\n")
DescriptionLine ==
    CHOOSE d \in 0..Len(HeaderLines) :
        /\ d > 0 => startsWith(HeaderLines[d], "description:")
        /\ \A j \in 1..(IF d = 0 THEN Len(HeaderLines) ELSE d - 1) :
              ~startsWith(HeaderLines[j], "description:")

\* the description key's line carries no value
NoValueOnKeyLine ==
    trim(Slice(HeaderLines[DescriptionLine], Len("description:") + 1)) = ""

\* an indented line that is neither a comment nor a key follows the description
\* key's line before the next key
HasContinuationLine ==
    \E j \in (DescriptionLine + 1)..Len(HeaderLines) :
        /\ IsIndentedLine(HeaderLines[j])
        /\ ~startsWith(trim(HeaderLines[j]), "#")
        /\ ~IsFieldLine(HeaderLines[j])
        /\ \A m \in (DescriptionLine + 1)..(j - 1) : ~IsFieldLine(HeaderLines[m])

\* C21: in a result whose header checks ran, the multi-line-description warning is
\* there exactly when the description key's line carries no value or an indented
\* continuation line that is neither a comment nor a key follows it before the next
\* key; a result whose only diagnostic is this warning is valid.
C21_MultilineWarning ==
    (HasHeaderBlock /\ 1 \in ReturnedCalls /\ Measured(validator.calls[1].result)
        /\ DescriptionLine > 0) =>
        /\ CountOf(validator.calls[1].result.warnings, "multiline_description")
             = (IF NoValueOnKeyLine \/ HasContinuationLine THEN 1 ELSE 0)
        /\ (Len(validator.calls[1].result.errors) = 0 => validator.calls[1].result.is_valid)

\* ---- C22 ----
\* the first line that holds the description key, and the first line after it that
\* holds another key or a delimiter: the lines from the one to before the other are
\* the description
DescriptionStart(lines) ==
    CHOOSE d \in 1..Len(lines) :
        /\ startsWith(lines[d], "description:")
        /\ \A j \in 1..(d - 1) : ~startsWith(lines[j], "description:")
DescriptionEnd(lines, d) ==
    CHOOSE e \in (d + 1)..(Len(lines) + 1) :
        /\ e <= Len(lines) => IsFieldLine(lines[e]) \/ trim(lines[e]) = "---"
        /\ \A j \in (d + 1)..(e - 1) : ~(IsFieldLine(lines[j]) \/ trim(lines[j]) = "---")

\* the lines of a document outside its description
CutDescription(lines, d) ==
    SubSeq(lines, 1, d - 1) \o SubSeq(lines, DescriptionEnd(lines, d), Len(lines))
OutsideDescription(text) ==
    CutDescription(split(text, "\n"), DescriptionStart(split(text, "\n")))

\* the lines of a rewritten document outside its description, without the comment
\* the doctor puts above the description
CutComment(lines, d) ==
    IF d > 1 /\ lines[d - 1] = PRETTIER_IGNORE
    THEN SubSeq(lines, 1, d - 2) \o SubSeq(lines, DescriptionEnd(lines, d), Len(lines))
    ELSE CutDescription(lines, d)
KeptLines(text) == CutComment(split(text, "\n"), DescriptionStart(split(text, "\n")))

\* the runs of the doctor that rewrote the document
Rewrites == {j \in 1..Len(doctor) : doctor[j].flagged /\ doctor[j].wrote}

\* a validation that follows a rewrite holds no multi-line-description warning
ValidationAfterRewriteIsClean ==
    (command.exited /\ ~command.threw /\ \E j \in Rewrites : ~doctor[j].validated) =>
        CountOf(command.result.warnings, "multiline_description") = 0

\* a rewrite keeps every line outside the description, in order
RewriteKeepsOtherLines ==
    \A j \in Rewrites : KeptLines(doctor[j].after) = OutsideDescription(doctor[j].before)

\* a run on a document that is not flagged writes nothing
UnflaggedIsLeftAlone ==
    \A j \in 1..Len(doctor) :
        ~doctor[j].flagged => ~doctor[j].wrote /\ doctor[j].after = doctor[j].before

\* of two runs in a row, one at most changes the document
ChangedAtMostOnce ==
    Len(doctor) = 2 =>
        ~(doctor[1].after # doctor[1].before /\ doctor[2].after # doctor[2].before)

\* C22: after the doctor rewrites a document whose description was flagged
\* multi-line, a following validation emits no multi-line-description warning and
\* every line outside the description is kept in order; a run on a document that is
\* not flagged writes nothing; two runs change the file at most once.
C22_DoctorFixesOnce ==
    /\ ValidationAfterRewriteIsClean
    /\ RewriteKeepsOtherLines
    /\ UnflaggedIsLeftAlone
    /\ ChangedAtMostOnce

\* ---- C23 ----
\* the body of the primary document
BodyOfDocument == extract_frontmatter(pkg.skill_md.content).body

\* C23: in a result whose header checks ran, the no-references warning is there
\* exactly when the body mentions no "references/" and its line_count is over the
\* good line threshold of the mode (40 strict, 100 lenient, 200 loose).
C23_NoReferencesByMode ==
    (HasDocument /\ 1 \in ReturnedCalls /\ Measured(validator.calls[1].result)) =>
        CountOf(validator.calls[1].result.warnings, "no_references")
          = (IF /\ ~includes(BodyOfDocument, "references/")
                /\ validator.calls[1].result.stats.line_count > C6_LINES[mode].good
             THEN 1 ELSE 0)

\* ---- C24 ----
\* C24: when validate_all() is called twice on the same instance and both calls
\* return, the second result holds the same errors, warnings and stats as the first
\* call returned.
C24_SecondCallSame ==
    ({1, 2} \subseteq ReturnedCalls) =>
        /\ validator.calls[2].result.errors = validator.calls[1].result.errors
        /\ validator.calls[2].result.warnings = validator.calls[1].result.warnings
        /\ validator.calls[2].result.stats = validator.calls[1].result.stats

\* ---- C25 ----
\* the sequences of k files of references/ without a repeat, each linking to the next
PathsOfLength(k) ==
    {path \in [1..k -> GraphFiles] :
        /\ \A i, j \in 1..k : path[i] = path[j] => i = j
        /\ \A i \in 1..(k - 1) : path[i + 1] \in LinksFrom(path[i])}
SimplePaths == UNION {PathsOfLength(k) : k \in 1..Cardinality(GraphFiles)}
LongestSimplePathFrom(f) == SetMax({Len(path) : path \in {q \in SimplePaths : q[1] = f}})

\* C25: on every reference graph, the depth computed for a file is the number of
\* files on the longest path of existing files that starts at it and repeats none.
C25_DepthIsLongestPath ==
    nesting.file # "" => nesting.depth = LongestSimplePathFrom(nesting.file)

\* the graph a -> b, a -> c, b -> d, c -> d, with the depth 3 computed for a
C25_DiamondDepth3 ==
    /\ Len(pkg.references.entries) = 4
    /\ LinksFrom("references/a.md") = {"references/b.md", "references/c.md"}
    /\ LinksFrom("references/b.md") = {"references/d.md"}
    /\ LinksFrom("references/c.md") = {"references/d.md"}
    /\ LinksFrom("references/d.md") = {}
    /\ nesting.file = "references/a.md"
    /\ nesting.depth = 3

\* ---- C26 ----
\* C26: when the package root is missing or is no directory, the first validate_all()
\* call returns is_valid = FALSE with one error and no warning, every stat zero, and
\* the structured validation as the constructor left it: no later check has run.
C26_NoDirectoryStopsEarly ==
    (validator.constructed /\ Len(validator.calls) >= 1 /\ pkg.root # "dir") =>
        /\ validator.calls[1].outcome = "returned"
        /\ validator.calls[1].at = "directory"
        /\ ~validator.calls[1].result.is_valid
        /\ Len(validator.calls[1].result.errors) = 1
        /\ validator.calls[1].result.warnings = <<>>
        /\ validator.calls[1].result.stats = ZERO_STATS
        /\ validator.calls[1].result.validation = NewValidator(mode).validation

\* a returned call on a root that is a regular file
C26_RootIsFile ==
    /\ pkg.root = "file"
    /\ 1 \in ReturnedCalls
    /\ TypesOf(validator.calls[1].result.errors) = {"not_directory"}

\* ---- C27 ----
SizeOf(result) == result.validation.progressive_disclosure.skill_md_size

\* C27: in every mode, in the first result that holds the size section,
\* exceeds_line_limit is TRUE exactly when a line_count error was recorded and
\* exceeds_word_limit exactly when a word_count error was recorded.
C27_ExceedsMatchesErrors ==
    (/\ 1 \in ReturnedCalls
     /\ validator.calls[1].result.validation.progressive_disclosure.defined) =>
        /\ SizeOf(validator.calls[1].result).exceeds_line_limit
              <=> CountOf(validator.calls[1].result.errors, "line_count") >= 1
        /\ SizeOf(validator.calls[1].result).exceeds_word_limit
              <=> CountOf(validator.calls[1].result.errors, "word_count") >= 1

\* ---- C28 ----
RefsOf(result) == result.validation.progressive_disclosure.references
SeqRange(q) == {q[j] : j \in 1..Len(q)}

\* the files of references/ an orphaned_file warning of the result names
WarnedOrphans(result) ==
    {f \in SeqRange(RefsOf(result).files_found) :
        \E j \in 1..Len(result.warnings) :
            /\ result.warnings[j].type = "orphaned_file"
            /\ includes(result.warnings[j].message, "'" \o f \o "'")}

\* C28: in the first result that holds the reference validation, orphaned_files holds
\* exactly the files an orphaned_file warning was emitted for.
C28_OrphanedFilesAreWarned ==
    (/\ 1 \in ReturnedCalls
     /\ validator.calls[1].result.validation.progressive_disclosure.defined) =>
        SeqRange(RefsOf(validator.calls[1].result).orphaned_files)
            = WarnedOrphans(validator.calls[1].result)

\* ---- C29 ----
TRIGGER_PHRASES == {"use when", "use for", "use to"}
HasTriggerPhrase(description) ==
    \E phrase \in TRIGGER_PHRASES : includes(toLowerCase(description), phrase)

\* the warnings of the result that say the description misses a trigger
MissingTriggerWarnings(result) ==
    CountOf(result.warnings, "trigger") + CountOf(result.warnings, "missing_trigger_phrase")

\* C29: in the first result for a document whose description was checked, the
\* warnings hold one missing-trigger warning when the description holds none of the
\* trigger phrases, and none when it holds one of them.
C29_OneTriggerWarning ==
    (HasDocument /\ 1 \in ReturnedCalls /\ Measured(validator.calls[1].result)) =>
        MissingTriggerWarnings(validator.calls[1].result)
            = (IF HasTriggerPhrase(DescriptionOf) THEN 0 ELSE 1)

\* ---- C30 ----
\* the line without the CR that ends it in a CRLF document
WithoutCR(line) == IF endsWith(line, "\r") THEN SubSeq(line, 1, Len(line) - 1) ELSE line
DocumentLines == split(pkg.skill_md.content, "\n")

\* line j closes the header: a delimiter line after lines holding both required keys
ClosesHeader(j) ==
    /\ WithoutCR(DocumentLines[j]) = "---"
    /\ \E i \in 2..(j - 1) : startsWith(DocumentLines[i], "name:")
    /\ \E i \in 2..(j - 1) : startsWith(DocumentLines[i], "description:")
HasClosedHeader == \E j \in 2..Len(DocumentLines) : ClosesHeader(j)
UsesCRLF == includes(pkg.skill_md.content, "\r\n")

\* C30: a document that starts with a delimiter line ended by LF or CRLF and holds a
\* closing delimiter line after both required keys is reported with
\* yaml_validation.valid = TRUE, never as malformed, and extract_frontmatter returns
\* its name and its description.
C30_EitherLineEnding ==
    (HasDocument /\ StartsWithDelimiter /\ HasClosedHeader /\ 1 \in ReturnedCalls) =>
        /\ validator.calls[1].result.validation.yaml_validation.valid
        /\ validator.calls[1].result.validation.yaml_validation.parse_error
              # "Malformed YAML frontmatter"
        /\ extract_frontmatter(pkg.skill_md.content).name # NULL
        /\ extract_frontmatter(pkg.skill_md.content).description # NULL

====
